---- MODULE Spec2Model ----
(***************************************************************************)
(* The playback sequencer of drivebeforeyougo (src/js/rehearsal-player.js) *)
(* as a state machine.  Every exported function of RehearsalPlayer is one  *)
(* action; the browser's timer queue and clock are the environment.        *)
(* The route analyzer (src/unnamed/part_002) is a pure function; it runs   *)
(* under a specification of its own, SpecAnalyzer, whose initial states    *)
(* are the routes it is handed and whose action is the call of analyze().  *)
(*                                                                         *)
(* Representation of JavaScript values:                                    *)
(*   - null / undefined is Null (-1) for numbers that are otherwise >= 0;  *)
(*     playTimer = null is 0 (timer ids are positive, and the code only    *)
(*     tests the handle for truthiness);                                   *)
(*   - speed is held in hundredths (0.5 -> 50, 1 -> 100, 2 -> 200);        *)
(*   - dwellSeconds is held in thousandths of a second, so the code's      *)
(*     (Date.now() - lastShownAt) / 1000 is the millisecond difference;    *)
(*   - a position in `points` is 0-based as in the code, points[i] is the  *)
(*     sequence element i + 1.                                             *)
(***************************************************************************)
EXTENDS Integers, Sequences, FiniteSets, TLC

\* ---------------------------------------------------------------- bounds
MaxPoints == 3      \* longest DecisionPoint list handed to init
MaxClock == 5000    \* milliseconds: the clock is followed from 0 up to MaxClock
TickMs == 5000      \* milliseconds the clock advances in one Tick
MaxSteps == 3       \* longest route whose steps are drawn freely
MaxLegs == 2        \* most legs of a route whose leg distances are drawn freely
MaxChain == 14      \* longest route that repeats a pattern of steps
MaxClusters == 3    \* most junction clusters of a route through dense junctions

\* ------------------------------------------------------- program constants
Null == -1
BASE_DWELL == 5000
\* DECISION_DWELL_MULTIPLIER = 1.6, as the fraction 16 / 10
DECISION_DWELL_MULTIPLIER_NUM == 16
DECISION_DWELL_MULTIPLIER_DEN == 10

\* speed multipliers the UI offers: 0.5, 1, 2 and 0 (skip), in hundredths
Speeds == {0, 50, 100, 200}

VARIABLES
    points,          \* the sequencer's `points` (a reference to the list given to init, or its own [])
    decisionPoints,  \* the DecisionPoint array object that was given to init (owned by the caller)
    currentIndex,
    isPlaying,
    playTimer,       \* handle of the last timer armed, 0 = null
    speed,
    onUpdate,        \* TRUE when a callback is registered
    lastShownAt,     \* Null or the clock value when the current point was shown
    panorama,        \* Null, or the index of the point the panorama displays
    timers,          \* the browser's pending timeouts: [id, delay, due]
    now,             \* Date.now()
    emitted,         \* snapshots passed to onUpdate during the last operation
    fault,           \* the last operation threw
    shownSince,      \* history: clock value when the current point became current (Null: none)
    left,            \* history: points the last operation left, with the time each had been current
    snapshot,        \* history: the snapshot onUpdate was last called with (<<>>: never called)
    directionsResult, \* the DirectionsResult the app was handed ([routes |-> <<>>]: none)
    scoredSteps,     \* history: the steps of the route as the last analyze() scored them
    rehearsalCompleted, \* the app's flag: the most-lingered summary of this rehearsal is computed
    lastOp           \* history: the last operation, its argument and the state it started in

progvars == <<points, decisionPoints, currentIndex, isPlaying, playTimer, speed,
              onUpdate, lastShownAt, panorama, timers>>
vars == <<points, decisionPoints, currentIndex, isPlaying, playTimer, speed,
          onUpdate, lastShownAt, panorama, timers, now, emitted, fault,
          shownSince, left, snapshot, directionsResult, scoredSteps, rehearsalCompleted,
          lastOp>>

\* The state the handlers thread through (everything but the clock and lastOp);
\* `heard` keeps, for every snapshot in `emitted`, the caller's list as it was when
\* the callback ran (the callback reads it).
St ==
    [points |-> points, decisionPoints |-> decisionPoints,
     currentIndex |-> currentIndex, isPlaying |-> isPlaying,
     playTimer |-> playTimer, speed |-> speed, onUpdate |-> onUpdate,
     lastShownAt |-> lastShownAt, panorama |-> panorama, timers |-> timers,
     emitted |-> <<>>, fault |-> FALSE, shownSince |-> shownSince, left |-> {},
     given |-> decisionPoints, heard |-> <<>>]

\* A DecisionPoint as the sequencer and the summary see it: the flag the sequencer
\* reads, the field it writes, and the commitment level getMostLingered weighs.
DecisionPoint(flag) ==
    [isDecisionPoint |-> flag, commitmentLevel |-> IF flag THEN "high" ELSE "low",
     dwellSeconds |-> Null]

\* The lists analyze() can hand over: any length up to MaxPoints, dwell not yet
\* written, decision points and ordinary points alternating.
FreshLists ==
    {[i \in 1..n |-> DecisionPoint(i % 2 = 1)] : n \in 0..MaxPoints}

\* ------------------------------------------------------ browser timer queue
\* setTimeout returns a positive id no pending timer carries.  (Browsers count
\* upwards; the code keeps a handle only in playTimer, which is overwritten with
\* every id setTimeout returns, so reusing the id of a timer that is gone is
\* a renaming of ids.)
FreshId(s) ==
    LET used == {t.id : t \in s.timers}
    IN  CHOOSE i \in 1..(Cardinality(used) + 1) :
            i \notin used /\ \A j \in 1..(i - 1) : j \in used

clearTimeout(s, id) ==
    [s EXCEPT !.timers = {t \in @ : t.id # id}]

\* playTimer = setTimeout(() => next(), delay)
setTimeout(s, delay) ==
    LET id == FreshId(s)
    IN  [s EXCEPT !.timers = @ \cup {[id |-> id, delay |-> delay, due |-> now + delay]},
                  !.playTimer = id]

\* ------------------------------------------------------------- the handlers
getState(s) ==
    [currentIndex |-> s.currentIndex,
     total |-> Len(s.points),
     point |-> IF s.currentIndex < Len(s.points)
               THEN <<s.points[s.currentIndex + 1]>> ELSE <<>>,
     isPlaying |-> s.isPlaying,
     speed |-> s.speed,
     progress |-> IF Len(s.points) > 0
                  THEN <<(s.currentIndex + 1) * 100, Len(s.points)>> ELSE <<0, 1>>,
     isFirst |-> s.currentIndex = 0,
     isLast |-> s.currentIndex = Len(s.points) - 1]

emitUpdate(s) ==
    IF s.onUpdate
    THEN [s EXCEPT !.emitted = Append(@, getState(s)), !.heard = Append(@, s.decisionPoints)]
    ELSE s

\* recordCurrentDwell() that writes to the point behind the current one
recordCurrentDwell_Following(s) ==
    LET i == s.currentIndex + 2
        s1 == IF s.lastShownAt # Null /\ i \in 1..Len(s.points)
              THEN [s EXCEPT !.points[i].dwellSeconds = now - s.lastShownAt,
                             !.decisionPoints[i].dwellSeconds = now - s.lastShownAt]
              ELSE s
    IN  [s1 EXCEPT !.lastShownAt = Null]

recordCurrentDwell(s) ==
    LET i == s.currentIndex + 1
        s1 == IF s.lastShownAt # Null /\ i \in 1..Len(s.points)
              THEN [s EXCEPT !.points[i].dwellSeconds = now - s.lastShownAt,
                             !.decisionPoints[i].dwellSeconds = now - s.lastShownAt]
              ELSE s
    IN  [s1 EXCEPT !.lastShownAt = Null]

\* history: the current point stops being the current point
Leave(s) ==
    IF s.shownSince # Null
    THEN [s EXCEPT !.left = @ \cup {[idx |-> s.currentIndex, elapsed |-> now - s.shownSince]},
                   !.shownSince = Null]
    ELSE s

\* (history: showing another point leaves the current one; showing the current
\* point again starts a new showing of it)
showPoint(s, index) ==
    IF index < 0 \/ index >= Len(s.points) THEN s
    ELSE LET s1 == recordCurrentDwell(s)
             s2 == IF index # s1.currentIndex THEN Leave(s1) ELSE s1
             s3 == [s2 EXCEPT !.currentIndex = index, !.panorama = index,
                              !.lastShownAt = now, !.shownSince = now]
         IN  emitUpdate(s3)

\* pause() that only clears the flag
pause_KeepsTimer(s) ==
    emitUpdate([s EXCEPT !.isPlaying = FALSE])

pause(s) ==
    LET s1 == [s EXCEPT !.isPlaying = FALSE]
        s2 == IF s1.playTimer # 0
              THEN [clearTimeout(s1, s1.playTimer) EXCEPT !.playTimer = 0]
              ELSE s1
    IN  emitUpdate(s2)

RECURSIVE next(_), scheduleNext(_)

\* next() that forgets the dwell of the last point
next_NoRecordAtEnd(s) ==
    IF s.currentIndex < Len(s.points) - 1
    THEN LET s1 == showPoint(s, s.currentIndex + 1)
         IN  IF s1.isPlaying THEN scheduleNext(s1) ELSE s1
    ELSE pause(s)

\* next() that shows the following point and never re-arms
next_NoReschedule(s) ==
    IF s.currentIndex < Len(s.points) - 1
    THEN showPoint(s, s.currentIndex + 1)
    ELSE pause(recordCurrentDwell(s))

next(s) ==
    IF s.currentIndex < Len(s.points) - 1
    THEN LET s1 == showPoint(s, s.currentIndex + 1)
         IN  IF s1.isPlaying THEN scheduleNext(s1) ELSE s1
    ELSE pause(recordCurrentDwell(s))

\* scheduleNext() that arms without cancelling the timer already pending
scheduleNext_NoCancel(s) ==
    LET cur == s.currentIndex + 1
        base == (BASE_DWELL * 100) \div s.speed
        delay == IF cur \in 1..Len(s.points) /\ s.points[cur].isDecisionPoint
                 THEN (base * DECISION_DWELL_MULTIPLIER_NUM) \div DECISION_DWELL_MULTIPLIER_DEN
                 ELSE base
    IN  IF ~s.isPlaying THEN s
        ELSE IF s.currentIndex >= Len(s.points) - 1 THEN pause(recordCurrentDwell(s))
        ELSE IF s.speed = 0 THEN next(s)
        ELSE setTimeout(s, delay)

\* scheduleNext() that at speed 0 shows the following point and stops there
scheduleNext_OneSkip(s) ==
    LET s1 == IF s.playTimer # 0 THEN clearTimeout(s, s.playTimer) ELSE s
        cur == s1.currentIndex + 1
        base == (BASE_DWELL * 100) \div s1.speed
        delay == IF cur \in 1..Len(s1.points) /\ s1.points[cur].isDecisionPoint
                 THEN (base * DECISION_DWELL_MULTIPLIER_NUM) \div DECISION_DWELL_MULTIPLIER_DEN
                 ELSE base
    IN  IF ~s1.isPlaying THEN s1
        ELSE IF s1.currentIndex >= Len(s1.points) - 1 THEN pause(recordCurrentDwell(s1))
        ELSE IF s1.speed = 0 THEN pause(showPoint(s1, s1.currentIndex + 1))
        ELSE setTimeout(s1, delay)

\* scheduleNext() that rests on every point for the base dwell, Decision Point or not
scheduleNext_FlatDelay(s) ==
    LET s1 == IF s.playTimer # 0 THEN clearTimeout(s, s.playTimer) ELSE s
        base == (BASE_DWELL * 100) \div s1.speed
    IN  IF ~s1.isPlaying THEN s1
        ELSE IF s1.currentIndex >= Len(s1.points) - 1 THEN pause(recordCurrentDwell(s1))
        ELSE IF s1.speed = 0 THEN next(s1)
        ELSE setTimeout(s1, base)

scheduleNext(s) ==
    LET s1 == IF s.playTimer # 0 THEN clearTimeout(s, s.playTimer) ELSE s
        cur == s1.currentIndex + 1
        base == (BASE_DWELL * 100) \div s1.speed
        delay == IF cur \in 1..Len(s1.points) /\ s1.points[cur].isDecisionPoint
                 THEN (base * DECISION_DWELL_MULTIPLIER_NUM) \div DECISION_DWELL_MULTIPLIER_DEN
                 ELSE base
    IN  IF ~s1.isPlaying THEN s1
        ELSE IF s1.currentIndex >= Len(s1.points) - 1 THEN pause(recordCurrentDwell(s1))
        ELSE IF s1.speed = 0 THEN next(s1)
        ELSE setTimeout(s1, delay)

\* init() that leaves a pending timer alone
init_NoClear(s, dp) ==
    LET s1 == [s EXCEPT !.points = dp, !.decisionPoints = dp, !.currentIndex = 0,
                        !.isPlaying = FALSE, !.speed = 100, !.onUpdate = TRUE,
                        !.lastShownAt = Null, !.shownSince = Null, !.given = dp]
    IN  IF Len(dp) = 0
        THEN [s1 EXCEPT !.fault = TRUE]
        ELSE showPoint([s1 EXCEPT !.panorama = 0], 0)

init(s, dp) ==
    LET s1 == [s EXCEPT !.points = dp, !.decisionPoints = dp, !.currentIndex = 0,
                        !.isPlaying = FALSE, !.speed = 100, !.onUpdate = TRUE,
                        !.lastShownAt = Null, !.shownSince = Null, !.given = dp]
        s2 == IF s1.playTimer # 0 THEN clearTimeout(s1, s1.playTimer) ELSE s1
    IN  IF Len(dp) = 0
        THEN [s2 EXCEPT !.fault = TRUE]     \* points[0].lat: TypeError, nothing after it runs
        ELSE showPoint([s2 EXCEPT !.panorama = 0], 0)

\* play() that sets the flag and never arms
play_NoSchedule(s) ==
    IF Len(s.points) = 0 THEN s
    ELSE emitUpdate([s EXCEPT !.isPlaying = TRUE])

play(s) ==
    IF Len(s.points) = 0 THEN s
    ELSE scheduleNext(emitUpdate([s EXCEPT !.isPlaying = TRUE]))

togglePlay(s) ==
    IF s.isPlaying THEN pause(s) ELSE play(s)

\* prev() with the bound off by one
prev_OffByOne(s) ==
    IF s.currentIndex >= 0
    THEN LET s1 == showPoint(s, s.currentIndex - 1)
         IN  IF s1.isPlaying THEN scheduleNext(s1) ELSE s1
    ELSE s

prev(s) ==
    IF s.currentIndex > 0
    THEN LET s1 == showPoint(s, s.currentIndex - 1)
         IN  IF s1.isPlaying THEN scheduleNext(s1) ELSE s1
    ELSE s

\* setSpeed() without the skip branch
setSpeed_NoSkip(s, newSpeed) ==
    emitUpdate([s EXCEPT !.speed = newSpeed])

\* setSpeed() that re-arms the pending timer at the new speed
setSpeed_Rearms(s, newSpeed) ==
    LET s1 == emitUpdate([s EXCEPT !.speed = newSpeed])
    IN  IF s1.isPlaying /\ s1.speed = 0
        THEN next(IF s1.playTimer # 0 THEN clearTimeout(s1, s1.playTimer) ELSE s1)
        ELSE IF s1.isPlaying THEN scheduleNext(s1) ELSE s1

setSpeed(s, newSpeed) ==
    LET s1 == emitUpdate([s EXCEPT !.speed = newSpeed])
    IN  IF s1.isPlaying /\ s1.speed = 0
        THEN next(IF s1.playTimer # 0 THEN clearTimeout(s1, s1.playTimer) ELSE s1)
        ELSE s1

\* goTo() that does not re-arm
goTo_NoReschedule(s, index) ==
    showPoint(s, index)

goTo(s, index) ==
    LET s1 == showPoint(s, index)
    IN  IF s1.isPlaying THEN scheduleNext(s1) ELSE s1

\* destroy() that does not pause first
destroy_NoPause(s) ==
    LET s1 == recordCurrentDwell(s)
    IN  [Leave(s1) EXCEPT !.panorama = Null, !.points = <<>>, !.lastShownAt = Null]

destroy(s) ==
    LET s1 == recordCurrentDwell(pause(s))
    IN  [Leave(s1) EXCEPT !.panorama = Null, !.points = <<>>, !.lastShownAt = Null]

\* ============================================================ RouteAnalyzer
\* The route analyzer (src/unnamed/part_002).  An instruction is the sequence
\* of its words, lower-cased (every pattern of the analyzer is case-blind);
\* the HTML form carries its markup tags as words of their own.  A regular
\* expression is the sequence of the word classes it needs side by side, so
\* /keep\s+left/ matches the text "keep left" and not the HTML "keep <b>left</b>".
SPACING_METERS == 150
MIN_TARGET_POINTS == 6
MAX_TARGET_POINTS == 12
DECISION_SCORE_THRESHOLD == 8

Markup == {"<b>", "</b>"}
\* \d+(st|nd|rd|th), a word that starts with \d+, and the road numbers [abm]\d+
Ordinal == {"1st", "2nd", "3rd", "4th"}
Digits == {"12"} \cup Ordinal
ARoad == {"a40"}
MRoad == {"m25", "m4"}
BRoad == {"b4009"}

COMPLEX_MANEUVERS ==
    [m \in {"roundabout-left", "roundabout-right", "merge", "fork-left", "fork-right",
            "ramp-left", "ramp-right", "turn-sharp-left", "turn-sharp-right",
            "uturn-left", "uturn-right"} |->
        CASE m \in {"roundabout-left", "roundabout-right"} -> "roundabout"
          [] m \in {"merge", "ramp-left", "ramp-right"} -> "merge"
          [] m \in {"fork-left", "fork-right"} -> "fork"
          [] m \in {"turn-sharp-left", "turn-sharp-right"} -> "sharp-turn"
          [] OTHER -> "uturn"]

ROUNDABOUT_PATTERNS ==
    <<<<{"roundabout"}>>,                         \* /roundabout/i
      <<{"exit"}, {"the"}, {"roundabout"}>>,      \* /exit\s+the\s+roundabout/i
      <<{"traffic"}, {"circle"}>>,                \* /traffic\s+circle/i
      <<{"gyratory"}>>,                           \* /gyratory/i
      <<{"rotary"}>>,                             \* /rotary/i
      <<{"take"}, {"the"}, Ordinal, {"exit"}>>>>  \* /take\s+the\s+\d+(st|nd|rd|th)\s+exit/i

LANE_COMMITMENT_PATTERNS ==
    <<<<{"keep"}, {"left"}>>,                      \* /keep\s+left/i
      <<{"keep"}, {"right"}>>,                     \* /keep\s+right/i
      <<{"use"}, {"the"}, {"left"}, {"lane"}>>,    \* /use\s+the\s+left\s+lane/i
      <<{"use"}, {"the"}, {"right"}, {"lane"}>>,   \* /use\s+the\s+right\s+lane/i
      <<{"stay"}, {"in"}, {"the"}, {"left"}>>,     \* /stay\s+in\s+the\s+left/i
      <<{"stay"}, {"in"}, {"the"}, {"right"}>>,    \* /stay\s+in\s+the\s+right/i
      <<{"merge"}>>,                               \* /merge/i
      <<{"slip"}, {"road"}>>,                      \* /slip\s+road/i
      <<{"exit"}>>,                                \* /exit/i
      <<{"take"}, {"the"}, {"ramp"}>>,             \* /take\s+the\s+ramp/i
      <<{"keep"}, {"to", "towards"}>>>>            \* /keep\s+to/i

PREPARE_PATTERNS ==
    <<<<{"prepare"}>>,                   \* /prepare/i
      <<{"keep"}>>,                      \* /keep/i
      <<{"merge"}>>,                     \* /merge/i
      <<{"exit"}>>,                      \* /exit/i
      <<{"take"}, {"the"}, {"ramp"}>>>>  \* /take\s+the\s+ramp/i

VISUAL_OVERLOAD_PATTERNS ==
    <<<<{"sign", "signs"}>>,   \* /signs?/i
      <<{"towards"}>>,         \* /towards/i
      <<ARoad>>,               \* /\bA\d+\b/i
      <<MRoad>>,               \* /\bM\d+\b/i
      <<BRoad>>,               \* /\bB\d+\b/i
      <<{"destination"}>>,     \* /destination/i
      <<{"follow"}>>>>         \* /follow/i

SOCIAL_PRESSURE_PATTERNS ==
    <<<<{"city"}, {"centre"}>>,   \* /city\s+centre/i
      <<{"airport"}>>,            \* /airport/i
      <<{"hospital"}>>>>          \* /hospital/i

COMPLEXITY_KEYWORDS ==
    <<[pattern |-> <<{"merge"}, {"onto"}>>, type |-> "merge"],
      [pattern |-> <<{"take"}, {"the"}, {"ramp"}>>, type |-> "merge"],
      [pattern |-> <<{"keep"}, {"left", "right"}>>, type |-> "fork"],
      [pattern |-> <<{"fork"}>>, type |-> "fork"],
      [pattern |-> <<{"sharp"}, {"left", "right"}>>, type |-> "sharp-turn"],
      [pattern |-> <<{"u-turn"}>>, type |-> "uturn"],
      [pattern |-> <<{"lane"}>>, type |-> "complex"],
      [pattern |-> <<{"slip"}, {"road"}>>, type |-> "merge"]>>

\* pattern.test(text)
test(pattern, text) ==
    \E i \in 1..(Len(text) - Len(pattern) + 1) :
        \A k \in 1..Len(pattern) : text[i + k - 1] \in pattern[k]

matchesAny(patterns, text) ==
    \E i \in 1..Len(patterns) : test(patterns[i], text)

\* textContent of the instruction: the words that are not markup
stripHtml(html) ==
    SelectSeq(html, LAMBDA w : w \notin Markup)

isRoundaboutStep(step, instructionHtml) ==
    \/ step.maneuver \in DOMAIN COMPLEX_MANEUVERS /\ COMPLEX_MANEUVERS[step.maneuver] = "roundabout"
    \/ matchesAny(ROUNDABOUT_PATTERNS, IF instructionHtml # <<>> THEN instructionHtml ELSE step.instructions)

hasComplexitySignal(step, instructionHtml) ==
    LET instruction == IF instructionHtml # <<>> THEN instructionHtml ELSE step.instructions
    IN  \/ \E i \in 1..Len(COMPLEXITY_KEYWORDS) : test(COMPLEXITY_KEYWORDS[i].pattern, instruction)
        \/ matchesAny(ROUNDABOUT_PATTERNS, instruction)
        \/ matchesAny(LANE_COMMITMENT_PATTERNS, instruction)

isPrepareStep(instruction) ==
    matchesAny(PREPARE_PATTERNS, instruction)

isMajorManeuver(step) ==
    \/ step.maneuver \in DOMAIN COMPLEX_MANEUVERS
    \/ step.maneuver \in {"turn-left", "turn-right"}
    \/ hasComplexitySignal(step, step.instructions)

\* hasExitOrdinal that needs the bare number ("2 exit") and misses the ordinals
hasExitOrdinal_BareNumber(instruction) ==
    test(<<{"1", "2", "3", "4"}, {"exit"}>>, instruction)

hasExitOrdinal(instruction) ==
    test(<<Ordinal, {"exit"}>>, instruction)

isMotorwayCruise(instruction) ==
    LET isCruise == \/ test(<<{"continue"}, {"on"}, ARoad \cup MRoad>>, instruction)
                    \/ test(<<{"continue"}, {"for"}, Digits>>, instruction)
                    \/ test(<<{"continue"}, {"straight"}>>, instruction)
        hasLaneCue == \/ matchesAny(LANE_COMMITMENT_PATTERNS, instruction)
                      \/ test(<<{"exit"}>>, instruction)
                      \/ test(<<{"merge"}>>, instruction)
    IN  isCruise /\ ~hasLaneCue

deriveType(step, instructionHtml) ==
    IF isRoundaboutStep(step, instructionHtml) THEN "roundabout"
    ELSE IF step.maneuver \in DOMAIN COMPLEX_MANEUVERS THEN COMPLEX_MANEUVERS[step.maneuver]
    ELSE IF \E i \in 1..Len(COMPLEXITY_KEYWORDS) : test(COMPLEXITY_KEYWORDS[i].pattern, instructionHtml)
         THEN LET i == CHOOSE i \in 1..Len(COMPLEXITY_KEYWORDS) :
                           /\ test(COMPLEXITY_KEYWORDS[i].pattern, instructionHtml)
                           /\ \A j \in 1..(i - 1) : ~test(COMPLEXITY_KEYWORDS[j].pattern, instructionHtml)
              IN  COMPLEXITY_KEYWORDS[i].type
    ELSE "complex"

\* flattenSteps: number of steps in the legs before leg l
RECURSIVE LegOffset(_, _)
LegOffset(legs, l) ==
    IF l <= 1 THEN 0 ELSE LegOffset(legs, l - 1) + Len(legs[l - 1].steps)

\* step.start_location.lat() on a step without start_location: a TypeError
flattenStepsThrows(route) ==
    \E l \in 1..Len(route.legs) :
        \E i \in 1..Len(route.legs[l].steps) : route.legs[l].steps[i].start_location = <<>>

flattenSteps(route) ==
    LET legs == route.legs
        total == LegOffset(legs, Len(legs) + 1)
    IN  [k \in 1..total |->
            LET l == CHOOSE l \in 1..Len(legs) : LegOffset(legs, l) < k /\ k <= LegOffset(legs, l + 1)
                i == k - LegOffset(legs, l)
                step == legs[l].steps[i]
            IN  [orderIndex |-> k - 1, legIndex |-> l - 1, stepIndex |-> i - 1, step |-> step,
                 lat |-> step.start_location[1], lng |-> step.start_location[2],
                 instructionHtml |-> step.instructions,
                 instruction |-> stripHtml(step.instructions),
                 distanceMeters |-> IF step.distance # Null THEN step.distance ELSE 0,
                 maneuver |-> step.maneuver]]

\* scoreStep with the motorway-cruise test moved behind the other rules: it only
\* excludes a step that scored nothing
scoreStep_CruiseLast(entry, context) ==
    LET lower == entry.instruction
        lane == matchesAny(LANE_COMMITMENT_PATTERNS, lower)
        isRoundabout == isRoundaboutStep(entry.step, entry.instructionHtml)
        exitOrdinal == isRoundabout /\ hasExitOrdinal(lower)
        small == isRoundabout /\ ~hasExitOrdinal(lower)
                    /\ entry.distanceMeters > 0 /\ entry.distanceMeters < 120
        nextDistance == IF context.next # <<>> THEN context.next[1].distanceMeters ELSE 0
        window == IF context.next # <<>> /\ isPrepareStep(lower) /\ isMajorManeuver(context.next[1].step)
                  THEN IF nextDistance > 0 /\ nextDistance <= 120 THEN 6
                       ELSE IF nextDistance > 0 /\ nextDistance <= 250 THEN 4 ELSE 0
                  ELSE 0
        signage == \/ matchesAny(VISUAL_OVERLOAD_PATTERNS, entry.instructionHtml)
                   \/ matchesAny(VISUAL_OVERLOAD_PATTERNS, lower)
        pressure == matchesAny(SOCIAL_PRESSURE_PATTERNS, lower)
        score == (IF lane THEN 6 ELSE 0) + (IF isRoundabout THEN 4 ELSE 0)
                 + (IF exitOrdinal THEN 2 ELSE 0) - (IF small THEN 3 ELSE 0)
                 + window + (IF signage THEN 2 ELSE 0) + (IF pressure THEN 1 ELSE 0)
        reasons == (IF lane THEN <<"lane-commitment">> ELSE <<>>)
                   \o (IF isRoundabout THEN <<"roundabout">> ELSE <<>>)
                   \o (IF exitOrdinal THEN <<"roundabout-exit">> ELSE <<>>)
                   \o (IF small THEN <<"small-roundabout">> ELSE <<>>)
                   \o (IF window > 0 THEN <<"short-window">> ELSE <<>>)
                   \o (IF signage THEN <<"signage">> ELSE <<>>)
                   \o (IF pressure THEN <<"pressure">> ELSE <<>>)
        type == deriveType(entry.step, entry.instructionHtml)
    IN  IF isMotorwayCruise(lower) /\ score = 0
        THEN [score |-> 0, reasons |-> <<"motorway-cruise">>, exclude |-> TRUE,
              type |-> type, isPrimary |-> FALSE]
        ELSE IF ~hasComplexitySignal(entry.step, entry.instructionHtml) /\ score = 0
        THEN [score |-> 0, reasons |-> reasons, exclude |-> TRUE, type |-> type, isPrimary |-> FALSE]
        ELSE [score |-> score, reasons |-> reasons, exclude |-> FALSE, type |-> type,
              isPrimary |-> isRoundabout]

scoreStep(entry, context) ==
    LET lower == entry.instruction
        lane == matchesAny(LANE_COMMITMENT_PATTERNS, lower)
        isRoundabout == isRoundaboutStep(entry.step, entry.instructionHtml)
        exitOrdinal == isRoundabout /\ hasExitOrdinal(lower)
        small == isRoundabout /\ ~hasExitOrdinal(lower)
                    /\ entry.distanceMeters > 0 /\ entry.distanceMeters < 120
        nextDistance == IF context.next # <<>> THEN context.next[1].distanceMeters ELSE 0
        window == IF context.next # <<>> /\ isPrepareStep(lower) /\ isMajorManeuver(context.next[1].step)
                  THEN IF nextDistance > 0 /\ nextDistance <= 120 THEN 6
                       ELSE IF nextDistance > 0 /\ nextDistance <= 250 THEN 4 ELSE 0
                  ELSE 0
        signage == \/ matchesAny(VISUAL_OVERLOAD_PATTERNS, entry.instructionHtml)
                   \/ matchesAny(VISUAL_OVERLOAD_PATTERNS, lower)
        pressure == matchesAny(SOCIAL_PRESSURE_PATTERNS, lower)
        score == (IF lane THEN 6 ELSE 0) + (IF isRoundabout THEN 4 ELSE 0)
                 + (IF exitOrdinal THEN 2 ELSE 0) - (IF small THEN 3 ELSE 0)
                 + window + (IF signage THEN 2 ELSE 0) + (IF pressure THEN 1 ELSE 0)
        reasons == (IF lane THEN <<"lane-commitment">> ELSE <<>>)
                   \o (IF isRoundabout THEN <<"roundabout">> ELSE <<>>)
                   \o (IF exitOrdinal THEN <<"roundabout-exit">> ELSE <<>>)
                   \o (IF small THEN <<"small-roundabout">> ELSE <<>>)
                   \o (IF window > 0 THEN <<"short-window">> ELSE <<>>)
                   \o (IF signage THEN <<"signage">> ELSE <<>>)
                   \o (IF pressure THEN <<"pressure">> ELSE <<>>)
        type == deriveType(entry.step, entry.instructionHtml)
    IN  IF isMotorwayCruise(lower)
        THEN [score |-> 0, reasons |-> <<"motorway-cruise">>, exclude |-> TRUE,
              type |-> type, isPrimary |-> FALSE]
        ELSE IF ~hasComplexitySignal(entry.step, entry.instructionHtml) /\ score = 0
        THEN [score |-> 0, reasons |-> reasons, exclude |-> TRUE, type |-> type, isPrimary |-> FALSE]
        ELSE [score |-> score, reasons |-> reasons, exclude |-> FALSE, type |-> type,
              isPrimary |-> isRoundabout]

scoreSteps(steps) ==
    [idx \in 1..Len(steps) |->
        LET following == IF idx < Len(steps) THEN <<steps[idx + 1]>> ELSE <<>>
            preceding == IF idx > 1 THEN <<steps[idx - 1]>> ELSE <<>>
        IN  scoreStep(steps[idx], [next |-> following, prev |-> preceding]) @@ steps[idx]]

RECURSIVE TotalMeters(_, _)
\* the sum getTargetCount accumulates over the first n legs; a leg without a
\* numeric distance.value (Null) adds nothing
TotalMeters(legs, n) ==
    IF n = 0 THEN 0
    ELSE TotalMeters(legs, n - 1) + (IF legs[n].distance # Null THEN legs[n].distance ELSE 0)

\* clamp without the upper bound
clamp_NoMaximum(value, min, max) ==
    IF value < min THEN min ELSE value

\* clamp without the lower limit
clamp_NoMinimum(value, min, max) ==
    IF max < value THEN max ELSE value

clamp(value, min, max) ==
    LET low == IF max < value THEN max ELSE value
    IN  IF min > low THEN min ELSE low

\* getTargetCount that truncates totalKm / 7 where the code rounds it
getTargetCount_Truncates(route) ==
    LET totalMeters == TotalMeters(route.legs, Len(route.legs))
    IN  IF totalMeters = 0 THEN 8
        ELSE clamp((totalMeters \div 7000) + 5, MIN_TARGET_POINTS, MAX_TARGET_POINTS)

\* Math.round(totalKm / 7) is the floor of totalMeters / 7000 + 1/2
getTargetCount(route) ==
    LET totalMeters == TotalMeters(route.legs, Len(route.legs))
    IN  IF totalMeters = 0 THEN 8
        ELSE clamp(((totalMeters + 3500) \div 7000) + 5, MIN_TARGET_POINTS, MAX_TARGET_POINTS)

RECURSIVE isqrt(_)
\* the integer part of a square root
isqrt(n) ==
    IF n < 2 THEN n
    ELSE LET r == 2 * isqrt(n \div 4)
         IN  IF (r + 1) * (r + 1) > n THEN r ELSE r + 1

\* Positions are metres east and north of a reference point of the route's
\* neighbourhood; over the few kilometres the routes span the great-circle
\* distance is the straight-line distance.  The result is its integer part.
haversineDistance(lat1, lng1, lat2, lng2) ==
    isqrt((lat2 - lat1) * (lat2 - lat1) + (lng2 - lng1) * (lng2 - lng1))

\* isTooClose that measures against the step selected last only
isTooClose_LastOnly(candidate, selected, thresholdMeters) ==
    /\ selected # <<>>
    /\ LET existing == selected[Len(selected)]
       IN  haversineDistance(candidate.lat, candidate.lng, existing.lat, existing.lng) < thresholdMeters

isTooClose(candidate, selected, thresholdMeters) ==
    \E i \in 1..Len(selected) :
        haversineDistance(candidate.lat, candidate.lng, selected[i].lat, selected[i].lng) < thresholdMeters

\* the three comparators handed to sort: of the candidates (selectRehearsalSteps),
\* of the result (selectRehearsalSteps, trimToMaxPoints), of the points to remove (trimToMaxPoints)
compare(by, a, b) ==
    CASE by = "priority" -> IF b.score # a.score THEN b.score - a.score ELSE a.orderIndex - b.orderIndex
      [] by = "orderIndex" -> a.orderIndex - b.orderIndex
      [] by = "score" -> a.score - b.score

\* Array.prototype.sort with a comparator (stable): element i goes behind
\* every element that compares lower, and behind the equal ones before it
sort(seq, by) ==
    LET n == Len(seq)
        pos(i) == 1 + Cardinality({j \in 1..n : \/ compare(by, seq[j], seq[i]) < 0
                                                \/ compare(by, seq[j], seq[i]) = 0 /\ j < i})
    IN  [p \in 1..n |-> seq[CHOOSE i \in 1..n : pos(i) = p]]

RECURSIVE selectMain(_, _, _, _)
\* the loop over the sorted candidates, from candidate i on
selectMain(sorted, i, selectedMain, target) ==
    IF i > Len(sorted) \/ Len(selectedMain) >= target THEN selectedMain
    ELSE IF isTooClose(sorted[i], selectedMain, SPACING_METERS)
         THEN selectMain(sorted, i + 1, selectedMain, target)
         ELSE selectMain(sorted, i + 1, Append(selectedMain, sorted[i]), target)

\* getLeadInStep that looks for the predecessor inside the step's own leg only
getLeadInStep_SameLeg(step, steps) ==
    IF step.orderIndex < 1 \/ step.stepIndex < 1 THEN <<>>
    ELSE LET before == steps[step.orderIndex]
         IN  IF before.distanceMeters > 40 \/ isPrepareStep(before.instruction)
             THEN <<before>> ELSE <<>>

\* <<prev>> or <<>> (null)
getLeadInStep(step, steps) ==
    IF step.orderIndex < 1 THEN <<>>
    ELSE LET before == steps[step.orderIndex]
         IN  IF before.distanceMeters > 40 \/ isPrepareStep(before.instruction)
             THEN <<before>> ELSE <<>>

RECURSIVE addLeadIns(_, _, _, _)
\* the second forEach over selectedMain, from element i on; `selected` is the
\* Map's values in insertion order
addLeadIns(selectedMain, i, selected, steps) ==
    IF i > Len(selectedMain) THEN selected
    ELSE LET leadIn == getLeadInStep(selectedMain[i], steps)
             has == leadIn # <<>> /\ \E k \in 1..Len(selected) : selected[k].orderIndex = leadIn[1].orderIndex
         IN  IF leadIn = <<>> \/ has
             THEN addLeadIns(selectedMain, i + 1, selected, steps)
             ELSE addLeadIns(selectedMain, i + 1,
                             Append(selected, [isLeadIn |-> TRUE,
                                               reasons |-> Append(leadIn[1].reasons, "lead-in")] @@ leadIn[1]),
                             steps)

RECURSIVE removeWhileOver(_, _)
\* while (result.length > MAX_TARGET_POINTS && queue.length) remove queue.shift() from result
removeWhileOver(result, queue) ==
    IF Len(result) > MAX_TARGET_POINTS /\ queue # <<>>
    THEN removeWhileOver(SelectSeq(result, LAMBDA pt : pt.orderIndex # Head(queue).orderIndex), Tail(queue))
    ELSE result

\* trimToMaxPoints that removes the points that are no lead-ins first
trimToMaxPoints_MainsFirst(pts) ==
    LET nonLead == sort(SelectSeq(pts, LAMBDA pt : ~pt.isLeadIn), "score")
        r1 == removeWhileOver(pts, nonLead)
        leadIns == sort(SelectSeq(r1, LAMBDA pt : pt.isLeadIn), "score")
        r2 == IF Len(r1) > MAX_TARGET_POINTS THEN removeWhileOver(r1, leadIns) ELSE r1
    IN  sort(r2, "orderIndex")

\* trimToMaxPoints that removes the lead-ins in route order
trimToMaxPoints_RouteOrder(pts) ==
    LET leadIns == SelectSeq(pts, LAMBDA pt : pt.isLeadIn)
        r1 == removeWhileOver(pts, leadIns)
        nonLead == sort(SelectSeq(r1, LAMBDA pt : ~pt.isLeadIn), "score")
        r2 == IF Len(r1) > MAX_TARGET_POINTS THEN removeWhileOver(r1, nonLead) ELSE r1
    IN  sort(r2, "orderIndex")

trimToMaxPoints(pts) ==
    LET leadIns == sort(SelectSeq(pts, LAMBDA pt : pt.isLeadIn), "score")
        r1 == removeWhileOver(pts, leadIns)
        nonLead == sort(SelectSeq(r1, LAMBDA pt : ~pt.isLeadIn), "score")
        r2 == IF Len(r1) > MAX_TARGET_POINTS THEN removeWhileOver(r1, nonLead) ELSE r1
    IN  sort(r2, "orderIndex")

\* selectRehearsalSteps that offers the candidates to the greedy pass in route order
selectRehearsalSteps_RouteOrder(steps, route) ==
    LET target == getTargetCount(route)
        candidates == SelectSeq(steps, LAMBDA step : step.score > 0 /\ ~step.exclude)
        selectedMain == selectMain(sort(candidates, "orderIndex"), 1, <<>>, target)
        mains == [i \in 1..Len(selectedMain) |-> [isLeadIn |-> FALSE] @@ selectedMain[i]]
        result == sort(addLeadIns(selectedMain, 1, mains, steps), "orderIndex")
    IN  IF Len(result) > MAX_TARGET_POINTS THEN trimToMaxPoints(result) ELSE result

\* selectRehearsalSteps that returns the Map's values as inserted
selectRehearsalSteps_Unsorted(steps, route) ==
    LET target == getTargetCount(route)
        candidates == SelectSeq(steps, LAMBDA step : step.score > 0 /\ ~step.exclude)
        selectedMain == selectMain(sort(candidates, "priority"), 1, <<>>, target)
        mains == [i \in 1..Len(selectedMain) |-> [isLeadIn |-> FALSE] @@ selectedMain[i]]
        result == addLeadIns(selectedMain, 1, mains, steps)
    IN  IF Len(result) > MAX_TARGET_POINTS THEN trimToMaxPoints(result) ELSE result

\* selectRehearsalSteps without the trimming
selectRehearsalSteps_NoTrim(steps, route) ==
    LET target == getTargetCount(route)
        candidates == SelectSeq(steps, LAMBDA step : step.score > 0 /\ ~step.exclude)
        selectedMain == selectMain(sort(candidates, "priority"), 1, <<>>, target)
        mains == [i \in 1..Len(selectedMain) |-> [isLeadIn |-> FALSE] @@ selectedMain[i]]
    IN  sort(addLeadIns(selectedMain, 1, mains, steps), "orderIndex")

\* selectRehearsalSteps that takes every step that is not excluded for a candidate
selectRehearsalSteps_ZeroScore(steps, route) ==
    LET target == getTargetCount(route)
        candidates == SelectSeq(steps, LAMBDA step : ~step.exclude)
        selectedMain == selectMain(sort(candidates, "priority"), 1, <<>>, target)
        mains == [i \in 1..Len(selectedMain) |-> [isLeadIn |-> FALSE] @@ selectedMain[i]]
        result == sort(addLeadIns(selectedMain, 1, mains, steps), "orderIndex")
    IN  IF Len(result) > MAX_TARGET_POINTS THEN trimToMaxPoints(result) ELSE result

selectRehearsalSteps(steps, route) ==
    LET target == getTargetCount(route)
        candidates == SelectSeq(steps, LAMBDA step : step.score > 0 /\ ~step.exclude)
        selectedMain == selectMain(sort(candidates, "priority"), 1, <<>>, target)
        mains == [i \in 1..Len(selectedMain) |-> [isLeadIn |-> FALSE] @@ selectedMain[i]]
        result == sort(addLeadIns(selectedMain, 1, mains, steps), "orderIndex")
    IN  IF Len(result) > MAX_TARGET_POINTS THEN trimToMaxPoints(result) ELSE result

\* analyze() ends in the exception of flattenSteps, which nothing catches
analyzeThrows(result) ==
    result.routes # <<>> /\ flattenStepsThrows(result.routes[1])

\* The DecisionPoint records analyze() returns (heading, the labels and the
\* commitment level are left out: nothing reads them back).
analyze(result) ==
    IF result.routes = <<>> THEN <<>>
    ELSE LET route == result.routes[1]
             selectedSteps == selectRehearsalSteps(scoreSteps(flattenSteps(route)), route)
         IN  [idx \in 1..Len(selectedSteps) |->
                 LET step == selectedSteps[idx]
                 IN  [index |-> idx - 1, stepIndex |-> step.stepIndex, legIndex |-> step.legIndex,
                      lat |-> step.lat, lng |-> step.lng, instruction |-> step.instruction,
                      type |-> step.type, isPrimary |-> step.isPrimary, isLeadIn |-> step.isLeadIn,
                      isDecisionPoint |-> step.score >= DECISION_SCORE_THRESHOLD,
                      score |-> step.score, reasons |-> step.reasons,
                      distanceMeters |-> step.distanceMeters, maneuver |-> step.maneuver]]

\* ---------------------------------------------- routes handed to analyze()
\* a step of the Directions API: instructions (HTML, <<>> when absent), maneuver
\* ("" when absent), distance.value (Null when absent) and start_location (<<>>
\* when absent)
Step(kind, at) ==
    [instructions |-> kind.instructions, maneuver |-> kind.maneuver,
     distance |-> kind.distance, start_location |-> at]

Cruise ==
    [instructions |-> <<"continue", "on", "<b>", "m25", "</b>">>, maneuver |-> "", distance |-> 19000]
CruiseWithSignals ==
    [instructions |-> <<"at", "the", "roundabout", "continue", "straight", "towards",
                        "airport", "prepare", "to", "turn">>,
     maneuver |-> "roundabout-left", distance |-> 60]
RoundaboutExit ==
    [instructions |-> <<"at", "the", "roundabout", "take", "the", "<b>", "2nd", "</b>", "exit">>,
     maneuver |-> "roundabout-right", distance |-> 80]
KeepLeft ==
    [instructions |-> <<"keep", "<b>", "left", "</b>">>, maneuver |-> "", distance |-> 300]
HeadNorth ==
    [instructions |-> <<"head", "<b>", "north", "</b>">>, maneuver |-> "", distance |-> 30]
LongTurn ==
    [instructions |-> <<"turn", "<b>", "left", "</b>">>, maneuver |-> "turn-left", distance |-> 500]
TowardsAirport ==
    [instructions |-> <<"turn", "left", "towards", "airport">>, maneuver |-> "turn-left", distance |-> 30]
SharpLeft ==
    [instructions |-> <<"sharp", "left">>, maneuver |-> "turn-sharp-left", distance |-> Null]

UTurn ==
    [instructions |-> <<"make", "a", "u-turn">>, maneuver |-> "uturn-left", distance |-> 200]
LeftFork ==
    [instructions |-> <<"take", "the", "left", "fork">>, maneuver |-> "fork-left", distance |-> 200]

LongTowardsAirport ==
    [instructions |-> <<"turn", "left", "towards", "airport">>, maneuver |-> "turn-left", distance |-> 500]
NoInstructions ==
    [instructions |-> <<>>, maneuver |-> "", distance |-> 80]
NoDistance ==
    [instructions |-> RoundaboutExit.instructions, maneuver |-> "roundabout-right", distance |-> Null]

StepKinds == {Cruise, RoundaboutExit, KeepLeft, HeadNorth, TowardsAirport}
Positions == {<<0, 0>>, <<200, 0>>}
LegDistances == {Null, 0, 3400, 3500, 10500, 24500, 45500, 70000}

\* every route of up to MaxSteps steps, in one leg or with the first step a leg of its own
ShortRoutes ==
    LET steps == UNION {[1..n -> {Step(k, at) : k \in StepKinds, at \in Positions}] : n \in 1..MaxSteps}
    IN  {[legs |-> <<[distance |-> 3000, steps |-> s]>>] : s \in steps}
        \cup {[legs |-> <<[distance |-> 3000, steps |-> <<s[1]>>],
                         [distance |-> 3000, steps |-> SubSeq(s, 2, Len(s))]>>] :
                 s \in {q \in steps : Len(q) >= 2}}

\* every choice of leg distances for up to MaxLegs legs of one step each
DistanceRoutes ==
    UNION {{[legs |-> [l \in 1..n |-> [distance |-> d[l], steps |-> <<Step(SharpLeft, <<0, 0>>)>>]]] :
                d \in [1..n -> LegDistances]} : n \in 1..MaxLegs}

ChainPatterns ==
    {<<RoundaboutExit>>, <<LongTurn, RoundaboutExit>>, <<TowardsAirport>>,
     <<Cruise, RoundaboutExit>>, <<KeepLeft, CruiseWithSignals, RoundaboutExit, SharpLeft>>,
     <<UTurn, LeftFork>>, <<Cruise, RoundaboutExit, LongTowardsAirport, RoundaboutExit>>}

\* a pattern of steps repeated along a straight road, a junction every `gap` metres
ChainRoutes ==
    {[legs |-> <<[distance |-> d,
                  steps |-> [i \in 1..n |-> Step(pat[((i - 1) % Len(pat)) + 1], <<i * gap, 0>>)]]>>] :
        n \in 1..MaxChain, pat \in ChainPatterns, gap \in {100, 150, 200}, d \in {Null, 3000, 70000}}

\* c clusters a kilometre apart: four side junctions 140 m from a big
\* roundabout and at least 164 m from each other, then the roundabout
ClusterRoutes ==
    LET around == <<<<140, 0>>, <<43, 133>>, <<0 - 113, 82>>, <<0 - 113, 0 - 82>>>>
        at(i) == LET c == (i - 1) \div 5
                     k == ((i - 1) % 5) + 1
                 IN  IF k = 5 THEN <<c * 1000, 0>>
                     ELSE <<c * 1000 + around[k][1], around[k][2]>>
    IN  {[legs |-> <<[distance |-> 70000,
                      steps |-> [i \in 1..(5 * c) |->
                                    Step(IF i % 5 = 0 THEN RoundaboutExit ELSE TowardsAirport, at(i))]]>>] :
            c \in 1..MaxClusters}

\* routes of one or two steps, 200 m apart, each step well-formed or lacking
\* its instruction text, its distance or its start_location
MalformedRoutes ==
    LET at(i) == <<i * 200, 0>>
        choices(i) == {Step(RoundaboutExit, at(i)), Step(NoInstructions, at(i)),
                       Step(NoDistance, at(i)), Step(RoundaboutExit, <<>>), Step(HeadNorth, <<>>)}
    IN  {[legs |-> <<[distance |-> 3000, steps |-> <<a>>]>>] : a \in choices(1)}
        \cup {[legs |-> <<[distance |-> 3000, steps |-> <<a, b>>]>>] : a \in choices(1), b \in choices(2)}

Results ==
    {[routes |-> <<>>]}
    \cup {[routes |-> <<r>>] : r \in ShortRoutes \cup DistanceRoutes \cup ChainRoutes \cup ClusterRoutes
                                     \cup MalformedRoutes}

\* ------------------------------------------------------------------ actions
\* what the listener keeps of a snapshot: every field but the reference to the point
Received(g) ==
    [currentIndex |-> g.currentIndex, total |-> g.total, isPlaying |-> g.isPlaying,
     speed |-> g.speed, progress |-> g.progress, isFirst |-> g.isFirst, isLast |-> g.isLast]

Set(r) ==
    /\ points' = r.points
    /\ decisionPoints' = r.decisionPoints
    /\ currentIndex' = r.currentIndex
    /\ isPlaying' = r.isPlaying
    /\ playTimer' = r.playTimer
    /\ speed' = r.speed
    /\ onUpdate' = r.onUpdate
    /\ lastShownAt' = r.lastShownAt
    /\ panorama' = r.panorama
    /\ timers' = r.timers
    /\ emitted' = r.emitted
    /\ fault' = r.fault
    /\ shownSince' = r.shownSince
    /\ left' = r.left
    /\ snapshot' = IF r.emitted = <<>> THEN snapshot ELSE <<Received(r.emitted[Len(r.emitted)])>>

\* onPlayerUpdate, its last part: the rehearsal counts as completed at the first
\* snapshot that shows the last point with playback stopped (that is when
\* getMostLingered reads the dwell times); `completed` is the flag before the call
onPlayerUpdate(completed, state) ==
    completed \/ (state.isLast /\ ~state.isPlaying)

\* the flag after the listener has received the snapshots of one operation
RECURSIVE onPlayerUpdates(_, _)
onPlayerUpdates(completed, states) ==
    IF states = <<>> THEN completed
    ELSE onPlayerUpdates(onPlayerUpdate(completed, Head(states)), Tail(states))

\* getMostLingered: a copy of every point with its stressScore, sorted by
\* descending stressScore (Array.prototype.sort is stable), the first three.
\* stressScore is kept in halves of the unit of dwellSeconds, so that the
\* weights 1, 1.5 and 2 are the integers 2, 3 and 4.
getMostLingered(pts) ==
    LET weight(pt) == IF "commitmentLevel" \notin DOMAIN pt THEN 2
                      ELSE IF pt.commitmentLevel = "high" THEN 4
                      ELSE IF pt.commitmentLevel = "medium" THEN 3
                      ELSE 2
        dwell(pt) == IF pt.dwellSeconds # Null THEN pt.dwellSeconds ELSE 0
        copy(pt) == [f \in DOMAIN pt \cup {"stressScore"} |->
                        IF f = "stressScore" THEN dwell(pt) * weight(pt) ELSE pt[f]]
        scored == [i \in 1..Len(pts) |-> copy(pts[i])]
        before(i, j) == \/ scored[i].stressScore > scored[j].stressScore
                        \/ scored[i].stressScore = scored[j].stressScore /\ i < j
        rank(i) == Cardinality({j \in 1..Len(pts) : before(j, i)}) + 1
        sorted == [k \in 1..Len(pts) |-> scored[CHOOSE i \in 1..Len(pts) : rank(i) = k]]
    IN  SubSeq(sorted, 1, IF Len(pts) < 3 THEN Len(pts) ELSE 3)

\* onPlayerUpdate that computes the summary whatever the flag says
lingeredSnapshot_Unguarded(completed, state, list) ==
    IF state.isLast /\ ~state.isPlaying
    THEN <<getMostLingered(list)>>
    ELSE <<>>

\* onPlayerUpdate, the summary: what one call assigns to lingeredSnapshot, as a
\* sequence (<<>>: the call assigns nothing, <<summary>>: it computes the summary
\* from the caller's list); `completed` is the flag before the call
lingeredSnapshot(completed, state, list) ==
    IF ~completed /\ state.isLast /\ ~state.isPlaying
    THEN <<getMostLingered(list)>>
    ELSE <<>>

\* the summaries computed while the listener receives the snapshots of one operation
RECURSIVE lingeredSnapshots(_, _, _)
lingeredSnapshots(completed, states, lists) ==
    IF states = <<>> THEN <<>>
    ELSE lingeredSnapshot(completed, Head(states), Head(lists))
            \o lingeredSnapshots(onPlayerUpdate(completed, Head(states)), Tail(states), Tail(lists))

\* history: what the operation was called with and the state it started in
\*   same : the operation left every variable of the sequencer, the list and the timer queue as it was
\*   dwellSame : it wrote no dwellSeconds
\*   core : it left current index, playing flag, speed and pending timers as they were
\*   nextAgain : it is next(), and the operation before it was next() at the same index of the same list
\*   wasCompleted : the app's flag when the sequencer was entered (startRehearsal clears it first)
\*   summaries : the most-lingered summaries the listener computed during the operation
\*   frame : it left everything but the speed as it was (list, index, playing flag, timer
\*           handle, pending timers with their delays and due times, lastShownAt, panorama)
\*   written : the 0-based positions of the caller's list whose dwellSeconds the operation changed
\*   kept : the caller's list has the length and, dwellSeconds aside, the points it was given with
History(op, arg, r) ==
    [op |-> op, arg |-> arg, idx |-> currentIndex, playing |-> isPlaying,
     n |-> Len(points), hadTimer |-> timers # {}, shownAt |-> lastShownAt,
     since |-> shownSince,
     same |-> /\ r.points = points
              /\ r.decisionPoints = decisionPoints
              /\ r.currentIndex = currentIndex
              /\ r.isPlaying = isPlaying
              /\ r.playTimer = playTimer
              /\ r.speed = speed
              /\ r.onUpdate = onUpdate
              /\ r.lastShownAt = lastShownAt
              /\ r.panorama = panorama
              /\ r.timers = timers,
     dwellSame |-> r.decisionPoints = decisionPoints,
     core |-> /\ r.currentIndex = currentIndex
              /\ r.isPlaying = isPlaying
              /\ r.speed = speed
              /\ r.timers = timers,
     nextAgain |-> /\ op = "next"
                   /\ lastOp.op = "next"
                   /\ lastOp.idx = currentIndex
                   /\ lastOp.n = Len(points),
     wasCompleted |-> op # "init" /\ rehearsalCompleted,
     summaries |-> lingeredSnapshots(op # "init" /\ rehearsalCompleted, r.emitted, r.heard),
     frame |-> /\ r.points = points
               /\ r.decisionPoints = decisionPoints
               /\ r.currentIndex = currentIndex
               /\ r.isPlaying = isPlaying
               /\ r.playTimer = playTimer
               /\ r.onUpdate = onUpdate
               /\ r.lastShownAt = lastShownAt
               /\ r.panorama = panorama
               /\ r.timers = timers,
     written |-> {i - 1 : i \in {k \in 1..Len(r.given) :
                                    \/ k > Len(r.decisionPoints)
                                    \/ r.decisionPoints[k].dwellSeconds # r.given[k].dwellSeconds}},
     kept |-> /\ Len(r.decisionPoints) = Len(r.given)
              /\ \A k \in 1..Len(r.given) :
                    [r.decisionPoints[k] EXCEPT !.dwellSeconds = Null]
                        = [r.given[k] EXCEPT !.dwellSeconds = Null]]

Run(op, arg, r) ==
    /\ Set(r)
    /\ lastOp' = History(op, arg, r)
    /\ rehearsalCompleted' = IF op = "destroy" THEN FALSE   \* goBackToInput clears it after destroy()
                             ELSE onPlayerUpdates(op # "init" /\ rehearsalCompleted, r.emitted)
    /\ UNCHANGED <<now, directionsResult, scoredSteps>>

Init ==
    /\ points = <<>>
    /\ decisionPoints = <<>>
    /\ currentIndex = 0
    /\ isPlaying = FALSE
    /\ playTimer = 0
    /\ speed = 100
    /\ onUpdate = FALSE
    /\ lastShownAt = Null
    /\ panorama = Null
    /\ timers = {}
    /\ now = 0
    /\ emitted = <<>>
    /\ fault = FALSE
    /\ shownSince = Null
    /\ left = {}
    /\ snapshot = <<>>
    /\ directionsResult = [routes |-> <<>>]
    /\ scoredSteps = <<>>
    /\ rehearsalCompleted = FALSE
    /\ lastOp = [op |-> "none", arg |-> 0, idx |-> 0, playing |-> FALSE, n |-> 0,
                 hadTimer |-> FALSE, shownAt |-> Null, since |-> Null,
                 same |-> TRUE, dwellSame |-> TRUE, core |-> TRUE, nextAgain |-> FALSE,
                 wasCompleted |-> FALSE, summaries |-> <<>>, frame |-> TRUE,
                 written |-> {}, kept |-> TRUE]

\* startRehearsal: init with a new analysis result, or with the array already analysed
DoInit == \E dp \in FreshLists \cup {decisionPoints} : Run("init", Len(dp), init(St, dp))
DoPlay == Run("play", 0, play(St))
DoPause == Run("pause", 0, pause(St))
DoTogglePlay == Run("togglePlay", 0, togglePlay(St))
DoNext == Run("next", 0, next(St))
DoPrev == Run("prev", 0, prev(St))
DoSetSpeed == \E sp \in Speeds : Run("setSpeed", sp, setSpeed(St, sp))
DoGoTo == \E i \in (0 - 1)..MaxPoints : Run("goTo", i, goTo(St, i))
DoDestroy == Run("destroy", 0, destroy(St))

\* A pending timeout whose delay has passed runs its callback, next().
TimerFire ==
    \E t \in timers :
        /\ t.due <= now
        /\ \E r \in {next([St EXCEPT !.timers = @ \ {t}])} : Run("timer", t.id, r)

\* Wall-clock time passes between two handlers.
Tick ==
    /\ now + TickMs <= MaxClock
    /\ now' = now + TickMs
    /\ lastOp' = History("tick", 0, St)
    /\ emitted' = <<>>
    /\ fault' = FALSE
    /\ left' = {}
    /\ UNCHANGED <<progvars, shownSince, snapshot, directionsResult, scoredSteps,
                   rehearsalCompleted>>

Next ==
    \/ DoInit
    \/ DoPlay
    \/ DoPause
    \/ DoTogglePlay
    \/ DoNext
    \/ DoPrev
    \/ DoSetSpeed
    \/ DoGoTo
    \/ DoDestroy
    \/ TimerFire
    \/ Tick

Spec == Init /\ [][Next]_vars

\* --------------------------------------------- playback left to itself
\* One rehearsal is set up and started with the clock at 0, the way the app does
\* it: startRehearsal calls init and then goTo(startIndex), the speed buttons call
\* setSpeed, the play button calls play.  Once it plays, or once time has passed,
\* no operation is called any more and only the browser acts: time passes and
\* due timeouts run next().
Idle == ~isPlaying /\ now = 0

\* Time passes until the pending timeout is due.
Elapse ==
    /\ \E t \in timers : t.due > now /\ now' = t.due
    /\ lastOp' = History("tick", 0, St)
    /\ emitted' = <<>>
    /\ fault' = FALSE
    /\ left' = {}
    /\ UNCHANGED <<progvars, shownSince, snapshot, directionsResult, scoredSteps,
                   rehearsalCompleted>>

NextPlayback ==
    \/ Idle /\ lastOp.op = "none" /\ DoInit
    \/ Idle /\ lastOp.op = "init" /\ DoGoTo
    \/ Idle /\ lastOp.op \in {"init", "goTo"} /\ DoSetSpeed
    \/ Idle /\ DoPlay
    \/ Elapse
    \/ TimerFire

\* The clock runs on, and the browser's event loop runs every due timeout while
\* no handler is executing: both steps are taken whenever they stay possible.
SpecPlayback ==
    Init /\ [][NextPlayback]_vars /\ WF_vars(Elapse) /\ WF_vars(TimerFire)

\* ------------------------------------------------- the analyzer on its own
\* onDirectionsResult: decisionPoints = RouteAnalyzer.analyze(result), once per result
DoAnalyze ==
    /\ lastOp.op = "none"
    /\ fault' = analyzeThrows(directionsResult)
    /\ decisionPoints' = IF analyzeThrows(directionsResult) THEN decisionPoints
                         ELSE analyze(directionsResult)
    /\ scoredSteps' = IF directionsResult.routes = <<>> \/ analyzeThrows(directionsResult) THEN <<>>
                      ELSE scoreSteps(flattenSteps(directionsResult.routes[1]))
    /\ lastOp' = [lastOp EXCEPT !.op = "analyze"]
    /\ UNCHANGED <<points, currentIndex, isPlaying, playTimer, speed, onUpdate, lastShownAt,
                   panorama, timers, now, emitted, shownSince, left, snapshot,
                   directionsResult, rehearsalCompleted>>

InitAnalyzer ==
    \E r \in Results :
        /\ directionsResult = r
        /\ points = <<>> /\ decisionPoints = <<>> /\ currentIndex = 0 /\ isPlaying = FALSE
        /\ playTimer = 0 /\ speed = 100 /\ onUpdate = FALSE /\ lastShownAt = Null
        /\ panorama = Null /\ timers = {} /\ now = 0 /\ emitted = <<>> /\ fault = FALSE
        /\ shownSince = Null /\ left = {} /\ snapshot = <<>> /\ scoredSteps = <<>>
        /\ rehearsalCompleted = FALSE
        /\ lastOp = [op |-> "none", arg |-> 0, idx |-> 0, playing |-> FALSE, n |-> 0,
                     hadTimer |-> FALSE, shownAt |-> Null, since |-> Null,
                     same |-> TRUE, dwellSame |-> TRUE, core |-> TRUE, nextAgain |-> FALSE,
                     wasCompleted |-> FALSE, summaries |-> <<>>, frame |-> TRUE,
                 written |-> {}, kept |-> TRUE]

NextAnalyzer == DoAnalyze

SpecAnalyzer == InitAnalyzer /\ [][NextAnalyzer]_vars

\* ------------------------------------------------------------------- claims
\* the dwellSeconds the caller's array holds for the point at 0-based index i
Dwell(i) == decisionPoints[i + 1].dwellSeconds

\* the last operation was `op`, called while a non-empty list was loaded
Called(op) == lastOp.op = op /\ lastOp.n > 0

\* exactly one timer is pending, it is the one playTimer names, armed during the last operation
ArmedNow ==
    /\ Cardinality(timers) = 1
    /\ \A t \in timers : t.id = playTimer /\ t.due = now + t.delay

\* C1: after any sequence of calls and timer firings at most one auto-advance
\* timer is pending, and it is the one the sequencer holds the handle of (every
\* arming cancelled its predecessor); a timer firing advances by exactly one point.
C1_AtMostOneTimerPending ==
    /\ Cardinality(timers) <= 1
    /\ \A t \in timers : t.id = playTimer
    /\ lastOp.op = "timer" => currentIndex = lastOp.idx + 1 /\ Cardinality(left) = 1

\* C1 witness: a timer was re-armed by goTo while another one was pending
C1_Witness ==
    /\ Called("goTo")
    /\ lastOp.hadTimer
    /\ currentIndex = lastOp.arg /\ lastOp.arg # lastOp.idx
    /\ timers # {}

\* C2: whenever an operation leaves a point (next, prev, goTo, auto-advance,
\* skip, destroy), dwellSeconds of the point left is the time it had been the
\* current point, for every point and on every path.
C2_DwellOfEveryPointLeft ==
    \A l \in left : Dwell(l.idx) = l.elapsed

C5_PrevAtFirstIndex ==
    (lastOp.op = "prev" /\ lastOp.idx = 0) => lastOp.same /\ emitted = <<>>

\* C5 witness: prev() at index 0 while playing, some time after the timer was armed
C5_Witness ==
    /\ Called("prev")
    /\ lastOp.idx = 0
    /\ lastOp.playing /\ lastOp.hadTimer
    /\ \E t \in timers : t.due < now + t.delay

\* C6: setSpeed(0) while Playing cancels the pending timer and advances inside
\* the call: on return the index is greater than before and no timer is pending.
C6_SkipAdvancesInsideCall ==
    (lastOp.op = "setSpeed" /\ lastOp.arg = 0 /\ lastOp.playing) =>
        /\ currentIndex > lastOp.idx
        /\ \E l \in left : l.idx = lastOp.idx
        /\ timers = {}

\* C6 witness: setSpeed(0) while playing with a timer pending
C6_Witness ==
    /\ Called("setSpeed")
    /\ lastOp.arg = 0
    /\ lastOp.playing /\ lastOp.hadTimer
    /\ currentIndex > lastOp.idx

\* C7 as stated: play() with at least one point loaded ends Playing with a
\* timer armed for the current point, whatever the current index is.
C7_PlayAlwaysArms ==
    Called("play") => isPlaying /\ ArmedNow /\ currentIndex = lastOp.idx

\* C7 amended: play() with at least one point loaded ends Playing with one
\* timer armed for the current point when the current index is below the last
\* index and the speed is not 0; at the last index, or with speed 0, it ends
\* at the last index, not playing, with no timer pending.
C7_PlayArmsBelowLast ==
    Called("play") =>
        IF lastOp.idx < lastOp.n - 1 /\ speed # 0
        THEN isPlaying /\ ArmedNow /\ currentIndex = lastOp.idx
        ELSE ~isPlaying /\ timers = {} /\ currentIndex = lastOp.n - 1

\* C7 witness: play() at a middle index armed a timer
C7_Witness ==
    /\ Called("play")
    /\ currentIndex > 0 /\ currentIndex < Len(points) - 1
    /\ isPlaying /\ ArmedNow

\* C8: init with a non-empty list, in any prior state, ends at index 0, not
\* playing, speed 1, no timer pending (so no earlier timer can advance the new
\* list), with exactly one snapshot emitted, which shows the first point.
C8_InitResets ==
    (lastOp.op = "init" /\ lastOp.arg > 0) =>
        /\ ~fault
        /\ Len(points) = lastOp.arg
        /\ currentIndex = 0 /\ ~isPlaying /\ speed = 100
        /\ timers = {}
        /\ Len(emitted) = 1
        /\ emitted[1].currentIndex = 0
        /\ emitted[1].point = <<points[1]>>
        /\ ~emitted[1].isPlaying

\* C8 witness: init with a non-empty list while playing with a timer pending
C8_Witness ==
    /\ lastOp.op = "init" /\ lastOp.arg > 0
    /\ lastOp.playing /\ lastOp.hadTimer

\* C9 as stated: goTo(i) with a valid i makes i current and, if the sequencer
\* was Playing, it is still Playing with the timer re-armed for point i.
C9_GoToKeepsPlaying ==
    (Called("goTo") /\ lastOp.arg >= 0 /\ lastOp.arg < lastOp.n) =>
        /\ currentIndex = lastOp.arg
        /\ lastOp.playing => isPlaying /\ ArmedNow

\* C9 amended: goTo(i) with a valid i makes i current; if the sequencer was
\* Playing and i is below the last index it is still Playing with the timer
\* re-armed for point i; if it was Playing and i is the last index it ends not
\* playing with no timer pending; if it was not Playing it stays so.
C9_GoToRearmsBelowLast ==
    (Called("goTo") /\ lastOp.arg >= 0 /\ lastOp.arg < lastOp.n) =>
        /\ currentIndex = lastOp.arg
        /\ (lastOp.playing /\ lastOp.arg < lastOp.n - 1) => isPlaying /\ ArmedNow
        /\ (lastOp.playing /\ lastOp.arg = lastOp.n - 1) => ~isPlaying /\ timers = {}
        /\ ~lastOp.playing => ~isPlaying /\ timers = {}

\* C9 witness: goTo to another index while playing, some time after the timer was armed
C9_Witness ==
    /\ Called("goTo")
    /\ lastOp.playing /\ isPlaying
    /\ currentIndex = lastOp.arg /\ lastOp.arg # lastOp.idx
    /\ now > 0
    /\ ArmedNow

\* C10: misuse is a no-op and never a fault: play, pause, next, prev, setSpeed
\* and goTo with no list loaded (before init, after destroy), and init with an
\* empty list, raise no error and leave index, playing flag, speed and timer
\* as they were.
C10_MisuseIsNoOp ==
    (\/ lastOp.op \in {"play", "pause", "next", "prev", "setSpeed", "goTo"} /\ lastOp.n = 0
     \/ lastOp.op = "init" /\ lastOp.arg = 0) =>
        ~fault /\ lastOp.core

\* the rest the spec prescribes at a speed multiplier (in hundredths), in milliseconds
RestTable(sp, decision) ==
    CASE sp = 50 -> IF decision THEN 16000 ELSE 10000
      [] sp = 100 -> IF decision THEN 8000 ELSE 5000
      [] sp = 200 -> IF decision THEN 4000 ELSE 2500
      [] OTHER -> Null

\* C11: every auto-advance timer is armed with the delay 5000 ms / speed, times
\* 1.6 exactly when the current point is a Decision Point: 10000, 5000, 2500 ms
\* at 0.5x, 1x, 2x on an ordinary point and 16000, 8000, 4000 ms on a Decision
\* Point; with speed 0 no timer is armed at all.
C11_TimerDelay ==
    /\ \A t \in timers :
          /\ currentIndex + 1 \in 1..Len(points)
          /\ t.delay \in {RestTable(sp, points[currentIndex + 1].isDecisionPoint) : sp \in {50, 100, 200}}
    /\ (lastOp.op \in {"play", "togglePlay", "next", "prev", "goTo", "timer"} /\ ~lastOp.same /\ timers # {}) =>
          /\ ArmedNow
          /\ \A t \in timers : t.delay = RestTable(speed, points[currentIndex + 1].isDecisionPoint)
    /\ speed = 0 => timers = {}

\* C11 witness: stepping back while playing at half speed arms a 16000 ms timer on a Decision Point
C11_Witness ==
    /\ lastOp.op = "prev" /\ ~lastOp.same
    /\ speed = 50
    /\ ArmedNow
    /\ points[currentIndex + 1].isDecisionPoint
    /\ \A t \in timers : t.delay = 16000

\* the fields of a snapshot, read off the sequencer's state
Actual ==
    [currentIndex |-> currentIndex, total |-> Len(points), isPlaying |-> isPlaying,
     speed |-> speed,
     progress |-> IF Len(points) > 0 THEN <<(currentIndex + 1) * 100, Len(points)>> ELSE <<0, 1>>,
     isFirst |-> currentIndex = 0, isLast |-> currentIndex = Len(points) - 1]

\* C12: a snapshot is emitted on every change: after any operation returns,
\* the snapshot most recently passed to the callback agrees with the actual
\* state on current index, total, playing flag, speed, progress, isFirst and
\* isLast; destroy(), which empties the point list, is covered.
C12_LastSnapshotIsCurrent ==
    (lastOp.op \notin {"none", "tick"} /\ ~fault /\ snapshot # <<>>) =>
        snapshot = <<Actual>>

\* ------------------------------------------------- claims on the analyzer
\* analyze() has returned the list now in decisionPoints
Analyzed == lastOp.op = "analyze"

\* the route analysed, and the positions of the candidates among its scored steps
Route == directionsResult.routes[1]
Candidates == {i \in 1..Len(scoredSteps) : scoredSteps[i].score > 0 /\ ~scoredSteps[i].exclude}

\* two positions are at least 150 m apart
Apart(a, b) ==
    (a.lat - b.lat) * (a.lat - b.lat) + (a.lng - b.lng) * (a.lng - b.lng) >= 150 * 150

\* the positions in decisionPoints of the points that are no lead-ins
Mains == {i \in 1..Len(decisionPoints) : ~decisionPoints[i].isLeadIn}

\* C13: the list analyze() returns is in strictly ascending route order
\* (leg index, then step index), holds no step twice, and the index field of
\* every DecisionPoint is its position in the list.
C13_RouteOrder ==
    Analyzed =>
        /\ \A i \in 1..Len(decisionPoints) : decisionPoints[i].index = i - 1
        /\ \A i, j \in 1..Len(decisionPoints) :
              i < j => \/ decisionPoints[i].legIndex < decisionPoints[j].legIndex
                       \/ /\ decisionPoints[i].legIndex = decisionPoints[j].legIndex
                          /\ decisionPoints[i].stepIndex < decisionPoints[j].stepIndex

\* C13 witness: a list over two legs with a lead-in, whose best-scored point is not the first
C13_Witness ==
    /\ Analyzed
    /\ Len(decisionPoints) >= 3
    /\ decisionPoints[1].legIndex # decisionPoints[Len(decisionPoints)].legIndex
    /\ \E i \in 1..Len(decisionPoints) : decisionPoints[i].isLeadIn
    /\ \E i \in 2..Len(decisionPoints) : decisionPoints[i].score > decisionPoints[1].score

\* C14: any two distinct DecisionPoints that are not lead-ins are at least
\* 150 m apart.
C14_MainsSpaced ==
    Analyzed =>
        \A i, j \in Mains : i # j => Apart(decisionPoints[i], decisionPoints[j])

\* C14 witness: a candidate was passed over for being too close to a selected
\* step although the target count was not reached, and two points were kept
C14_Witness ==
    /\ Analyzed
    /\ Cardinality(Mains) >= 2
    /\ Cardinality(Mains) < getTargetCount(Route)
    /\ \E c \in Candidates :
          /\ \A i \in Mains : decisionPoints[i].legIndex # scoredSteps[c].legIndex
                                 \/ decisionPoints[i].stepIndex # scoredSteps[c].stepIndex
          /\ \E i \in Mains : ~Apart(decisionPoints[i], scoredSteps[c])

\* C15: the list analyze() returns never holds more than 12 points, lead-ins
\* included.
C15_AtMostTwelve ==
    Analyzed => Len(decisionPoints) <= 12

\* C15 witness: selected steps and lead-ins came to more than 12 and were trimmed to 12
C15_Witness ==
    /\ Analyzed
    /\ Len(decisionPoints) = 12
    /\ Len(selectRehearsalSteps_NoTrim(scoredSteps, Route)) > 12
    /\ \E i \in 1..Len(decisionPoints) : decisionPoints[i].isLeadIn

RECURSIVE Independent(_, _)
\* among the scored steps at the positions S there are `need` that are
\* pairwise at least 150 m apart
Independent(S, need) ==
    \/ need = 0
    \/ /\ Cardinality(S) >= need
       /\ LET c == CHOOSE c \in S : \A d \in S : c <= d
          IN  \/ Independent({d \in S \ {c} : Apart(scoredSteps[c], scoredSteps[d])}, need - 1)
              \/ Independent(S \ {c}, need)

\* the candidates in the selector's order: score descending, route order ascending
Ranked ==
    LET cands == Candidates
        rank(c) == 1 + Cardinality({d \in cands :
                        \/ scoredSteps[d].score > scoredSteps[c].score
                        \/ scoredSteps[d].score = scoredSteps[c].score /\ d < c})
    IN  [r \in 1..Cardinality(cands) |-> CHOOSE c \in cands : rank(c) = r]

\* there are at least 12 candidates and the 12 ranked highest are pairwise at least 150 m apart
BestTwelveApart ==
    /\ Cardinality(Candidates) >= 12
    /\ LET ranked == Ranked
       IN  \A r, q \in 1..12 : r < q => Apart(scoredSteps[ranked[r]], scoredSteps[ranked[q]])

\* C16: whenever the route holds at least 12 candidates (score > 0, not
\* excluded) that are pairwise at least 150 m apart, the list analyze() returns
\* has at least 6 and at most 12 points, whatever other candidates there are.
C16_SixToTwelve ==
    (Analyzed /\ Independent(Candidates, 12)) =>
        Len(decisionPoints) >= 6 /\ Len(decisionPoints) <= 12

\* C16 amended: whenever the route has at least 12 candidates and the 12
\* ranked highest (score descending, route order ascending) are pairwise at
\* least 150 m apart, the list has at least 6 and at most 12 points, whatever
\* candidates rank below them; 12 is the upper limit for every route.
C16_SixToTwelveOfTheBest ==
    Analyzed =>
        /\ Len(decisionPoints) <= 12
        /\ BestTwelveApart => Len(decisionPoints) >= 6

\* C16 witness: the 12 best candidates are spaced, more candidates rank below
\* them, and the target count keeps the list below 12
C16_Witness ==
    /\ Analyzed
    /\ Cardinality(Candidates) > 12
    /\ BestTwelveApart
    /\ Len(decisionPoints) = 6

\* C17: when fewer than 12 independent candidates exist, analyze() returns at
\* most as many DecisionPoints as there are candidates (steps with score > 0
\* that are not excluded).
C17_AtMostTheCandidates ==
    (Analyzed /\ ~Independent(Candidates, 12)) =>
        Len(decisionPoints) <= Cardinality(Candidates)

\* C17 amended: for every route, and so when fewer than 12 independent
\* candidates exist, the DecisionPoints that are no lead-ins are at most as
\* many as the candidates and each of them is a candidate; every lead-in is the
\* step right before one of them, so the list is at most twice as long as
\* there are candidates.
C17_MainsAtMostTheCandidates ==
    Analyzed =>
        /\ Cardinality(Mains) <= Cardinality(Candidates)
        /\ \A i \in Mains : \E c \in Candidates :
              /\ scoredSteps[c].legIndex = decisionPoints[i].legIndex
              /\ scoredSteps[c].stepIndex = decisionPoints[i].stepIndex
        /\ Len(decisionPoints) <= 2 * Cardinality(Candidates)

\* C17 witness: one candidate, and a list of two: the candidate and, as its
\* lead-in, a step that is no candidate
C17_Witness ==
    /\ Analyzed
    /\ Cardinality(Candidates) = 1
    /\ Len(decisionPoints) = 2
    /\ decisionPoints[1].isLeadIn /\ decisionPoints[1].score = 0
    /\ ~decisionPoints[2].isLeadIn

\* a plain continuation ("continue on <A or M road>", "continue for <number>",
\* "continue straight") that carries no lane-commitment, exit or merge cue
PlainContinuation(text) ==
    /\ \E i \in 1..Len(text) - 1 :
          /\ text[i] = "continue"
          /\ \/ text[i + 1] = "straight"
             \/ i + 2 <= Len(text) /\ text[i + 1] = "on" /\ text[i + 2] \in ARoad \cup MRoad
             \/ i + 2 <= Len(text) /\ text[i + 1] = "for" /\ text[i + 2] \in Digits
    /\ ~matchesAny(LANE_COMMITMENT_PATTERNS, text)
    /\ \A i \in 1..Len(text) : text[i] \notin {"exit", "merge"}

\* C18: a motorway-cruise step (a plain continuation with no lane-commitment,
\* exit or merge cue) never surfaces: no DecisionPoint of the list analyze()
\* returns originates from such a step, whatever its neighbours are.
C18_CruiseNeverSurfaces ==
    Analyzed =>
        \A i \in 1..Len(decisionPoints) : ~PlainContinuation(decisionPoints[i].instruction)

\* some scoring rule other than the override applies to the scored step at position i
OtherSignals(i) ==
    LET e == scoredSteps[i]
    IN  /\ matchesAny(VISUAL_OVERLOAD_PATTERNS, e.instruction)
        /\ matchesAny(SOCIAL_PRESSURE_PATTERNS, e.instruction)
        /\ isRoundaboutStep(e.step, e.instructionHtml)
        /\ i < Len(scoredSteps)
        /\ isPrepareStep(e.instruction) /\ isMajorManeuver(scoredSteps[i + 1].step)
        /\ scoredSteps[i + 1].distanceMeters \in 1..120

RoundedTarget(totalMeters) ==
    LET q == CHOOSE q \in 0..(totalMeters \div 7000 + 1) :
                 7000 * q - 3500 <= totalMeters /\ totalMeters < 7000 * q + 3500
    IN  IF q + 5 < 6 THEN 6 ELSE IF q + 5 > 12 THEN 12 ELSE q + 5

\* the sum of the legs' distances, a missing distance counting 0
TotalDistance == TotalMeters(Route.legs, Len(Route.legs))

\* C20: for every total route distance (the sum of the legs' distances in
\* metres, zero or missing distances included) the selector's target count is
\* round(totalKilometers / 7) + 5 clamped to [6, 12].
C20_TargetCount ==
    (Analyzed /\ directionsResult.routes # <<>>) =>
        getTargetCount(Route) = RoundedTarget(TotalDistance)

\* C20 amended: for every total route distance above zero the target count is
\* round(totalKilometers / 7) + 5 clamped to [6, 12]; when the total is zero
\* (every leg's distance zero or missing) the target count is 8.
C20_TargetCountOrEight ==
    (Analyzed /\ directionsResult.routes # <<>>) =>
        getTargetCount(Route) = IF TotalDistance = 0 THEN 8 ELSE RoundedTarget(TotalDistance)

\* C20 witness: a leg without a distance and a leg of 10.5 km: 1.5 rounds up to 2, the target is 7
C20_Witness ==
    /\ Analyzed
    /\ directionsResult.routes # <<>>
    /\ Len(Route.legs) = 2
    /\ Route.legs[1].distance = Null /\ Route.legs[2].distance = 10500
    /\ getTargetCount(Route) = 7

\* the scored step at position i is the roundabout of the scenario: text "At
\* the roundabout, take the 2nd exit", maneuver roundabout-right, 80 m long, and
\* the short-window rule does not apply to it (no major maneuver of 250 m or
\* less follows)
ScenarioRoundabout(i) ==
    LET e == scoredSteps[i]
    IN  /\ e.instruction = <<"at", "the", "roundabout", "take", "the", "2nd", "exit">>
        /\ e.maneuver = "roundabout-right"
        /\ e.distanceMeters = 80
        /\ \/ i = Len(scoredSteps)
           \/ ~isMajorManeuver(scoredSteps[i + 1].step)
           \/ scoredSteps[i + 1].distanceMeters \notin 1..250

\* C21: the roundabout step of the scenario is scored 4 + 2 = 6 with the
\* reasons roundabout and roundabout-exit and without lane-commitment, has
\* type roundabout and isPrimary = true.
C21_RoundaboutScoresSix ==
    Analyzed =>
        \A i \in 1..Len(scoredSteps) :
            ScenarioRoundabout(i) =>
                /\ scoredSteps[i].score = 6
                /\ scoredSteps[i].reasons = <<"roundabout", "roundabout-exit">>
                /\ scoredSteps[i].type = "roundabout"
                /\ scoredSteps[i].isPrimary

\* C21 amended: the word "exit" of the instruction is a lane-commitment cue of
\* its own, so the step is scored 6 + 4 + 2 = 12 with the reasons
\* lane-commitment, roundabout and roundabout-exit, is not excluded, has type
\* roundabout and isPrimary = true.
C21_RoundaboutScoresTwelve ==
    Analyzed =>
        \A i \in 1..Len(scoredSteps) :
            ScenarioRoundabout(i) =>
                /\ scoredSteps[i].score = 12
                /\ scoredSteps[i].reasons = <<"lane-commitment", "roundabout", "roundabout-exit">>
                /\ ~scoredSteps[i].exclude
                /\ scoredSteps[i].type = "roundabout"
                /\ scoredSteps[i].isPrimary

\* C21 witness: the scenario's roundabout scored, once as the last step of a
\* route and once before a step that is no major maneuver
C21_Witness ==
    /\ Analyzed
    /\ Len(scoredSteps) = 3
    /\ ScenarioRoundabout(1) /\ ~isMajorManeuver(scoredSteps[2].step)
    /\ ScenarioRoundabout(3)
    /\ scoredSteps[1].score = 12 /\ scoredSteps[3].score = 12

\* the scored step at position i is a fork, a sharp turn or a U-turn, by its
\* maneuver code or by the keyword table, and is no motorway cruise
ForkSharpOrUturn(i) ==
    LET e == scoredSteps[i]
        kinds == {"fork", "sharp-turn", "uturn"}
    IN  /\ \/ e.maneuver \in DOMAIN COMPLEX_MANEUVERS /\ COMPLEX_MANEUVERS[e.maneuver] \in kinds
           \/ \E k \in 1..Len(COMPLEXITY_KEYWORDS) :
                 /\ COMPLEXITY_KEYWORDS[k].type \in kinds
                 /\ test(COMPLEXITY_KEYWORDS[k].pattern, e.instruction)
        /\ ~isMotorwayCruise(e.instruction)

\* C22: a step that is a fork, a sharp turn or a U-turn by its maneuver code
\* or by the keyword table, and is no motorway cruise, receives a score greater
\* than 0 and exclude = false, so it competes for selection.
C22_ForksSharpTurnsUturnsScore ==
    Analyzed =>
        \A i \in 1..Len(scoredSteps) :
            ForkSharpOrUturn(i) => scoredSteps[i].score > 0 /\ ~scoredSteps[i].exclude

\* the steps of the route analysed, leg after leg
RouteSteps ==
    LET legs == Route.legs
    IN  [k \in 1..LegOffset(legs, Len(legs) + 1) |->
            LET l == CHOOSE l \in 1..Len(legs) : LegOffset(legs, l) < k /\ k <= LegOffset(legs, l + 1)
            IN  legs[l].steps[k - LegOffset(legs, l)]]

\* C23: analyze() never throws on malformed step data: every step of the
\* route is scored, a step without distance counts 0 m, a step without
\* instruction text has the empty instruction and score 0, and only steps
\* of the route appear in the result.
C23_MalformedStepsNeverThrow ==
    (Analyzed /\ directionsResult.routes # <<>>) =>
        /\ ~fault
        /\ Len(scoredSteps) = Len(RouteSteps)
        /\ \A k \in 1..Len(scoredSteps) :
              /\ RouteSteps[k].distance = Null => scoredSteps[k].distanceMeters = 0
              /\ RouteSteps[k].instructions = <<>> =>
                    scoredSteps[k].instruction = <<>> /\ scoredSteps[k].score = 0
        /\ \A i \in 1..Len(decisionPoints) :
              \E k \in 1..Len(scoredSteps) :
                  /\ scoredSteps[k].legIndex = decisionPoints[i].legIndex
                  /\ scoredSteps[k].stepIndex = decisionPoints[i].stepIndex

\* the score scoreStep gives step k of the route analysed
ScoreOf(k) ==
    LET entry(j) == [step |-> RouteSteps[j], instructionHtml |-> RouteSteps[j].instructions,
                     instruction |-> stripHtml(RouteSteps[j].instructions),
                     distanceMeters |-> IF RouteSteps[j].distance # Null THEN RouteSteps[j].distance ELSE 0]
    IN  scoreStep(entry(k), [next |-> IF k < Len(RouteSteps) THEN <<entry(k + 1)>> ELSE <<>>,
                             prev |-> IF k > 1 THEN <<entry(k - 1)>> ELSE <<>>]).score

\* C24: analyze() returns an empty list, without error, when the routing
\* result has no routes, and when no step of the route has a score above 0;
\* no lead-in point is produced in the second case either.
C24_EmptyResults ==
    (Analyzed /\ (directionsResult.routes = <<>> \/ \A k \in 1..Len(RouteSteps) : ScoreOf(k) <= 0)) =>
        ~fault /\ decisionPoints = <<>>

\* ------------------------------------------- claims on the rehearsal's end
\* the last operation made the rehearsal count as completed: the position in
\* `emitted` of the snapshot at which the summary was computed (0: none)
CompletedAt ==
    IF lastOp.wasCompleted \/ lastOp.op \in {"none", "tick", "analyze"} THEN 0
    ELSE LET hits == {j \in 1..Len(emitted) : emitted[j].isLast /\ ~emitted[j].isPlaying}
         IN  IF hits = {} THEN 0 ELSE CHOOSE j \in hits : \A k \in hits : j <= k

\* C25 (for the final point): at the moment playback is treated as Completed
\* and the most-lingered summary is computed, the final point has its
\* dwellSeconds recorded with the time it has been displayed, after manual
\* stepping as well as after auto-play.
C25_FinalDwellKnownAtCompleted ==
    CompletedAt > 0 =>
        LET state == emitted[CompletedAt]
        IN  /\ state.point # <<>>
            /\ state.point[1].dwellSeconds # Null
            /\ state.point[1].dwellSeconds = now - shownSince

\* the 0-based positions that were the current point at some time during the
\* last operation: the one it started at, those it left, the one it ended at
CurrentDuring ==
    {lastOp.idx} \cup {l.idx : l \in left} \cup {currentIndex}

\* C26: no sequencer operation changes a field of a DecisionPoint other than
\* dwellSeconds, nor the length or the order of the list; a write to
\* dwellSeconds targets a point that is the current point when it is written
\* (init, which makes the first point current, writes none).
C26_OnlyDwellOfCurrentWritten ==
    (lastOp.op \notin {"none", "tick", "analyze"}) =>
        /\ lastOp.kept
        /\ lastOp.written \subseteq CurrentDuring
        /\ lastOp.op = "init" => lastOp.written = {}
        /\ lastOp.written # {} => lastOp.n > 0

\* C26 witness: skipping from the first point through a list of three writes
\* the dwell of each of its points in one call
C26_Witness ==
    /\ lastOp.op = "setSpeed" /\ lastOp.arg = 0 /\ lastOp.idx = 0
    /\ lastOp.written = {0, 1, 2}
    /\ Len(decisionPoints) = 3 /\ currentIndex = 2

\* ----------------------------------------- claims on the selection's steps
\* the positions among the scored steps of the points returned as main points
MainSteps ==
    {k \in 1..Len(scoredSteps) :
        \E i \in Mains : /\ decisionPoints[i].legIndex = scoredSteps[k].legIndex
                         /\ decisionPoints[i].stepIndex = scoredSteps[k].stepIndex}

\* the scored step at position a has priority over the one at position b:
\* the higher score, or the same score earlier in the route
Before(a, b) ==
    \/ scoredSteps[a].score > scoredSteps[b].score
    \/ scoredSteps[a].score = scoredSteps[b].score /\ a < b

\* C27: greedy selection gives higher-priority candidates first claim (score
\* descending, ties by route order): the main points are candidates, and a
\* candidate is left out of them exactly if the target count was reached by
\* accepted candidates of higher priority or an accepted candidate of higher
\* priority lies less than 150 m from it.
C27_GreedyPriority ==
    (Analyzed /\ ~fault /\ directionsResult.routes # <<>>) =>
        LET mains == MainSteps
            target == getTargetCount(Route)
            ahead(c) == {m \in mains : Before(m, c)}
            crowded(c) == \E m \in ahead(c) : ~Apart(scoredSteps[m], scoredSteps[c])
        IN  /\ mains \subseteq Candidates
            /\ \A c \in Candidates :
                  c \notin mains <=> (Cardinality(ahead(c)) >= target \/ crowded(c))

\* C27 witness: a route with a candidate left out, before the target count is
\* reached, for an accepted neighbour of the same score earlier in the route,
\* and a candidate far from every accepted one left out because the target
\* count was reached
C27_Witness ==
    /\ Analyzed /\ ~fault /\ directionsResult.routes # <<>>
    /\ LET mains == MainSteps
           target == getTargetCount(Route)
           out == Candidates \ mains
           ahead(c) == {m \in mains : Before(m, c)}
       IN  /\ \E c \in out : /\ Cardinality(ahead(c)) < target
                             /\ \E m \in ahead(c) : m < c /\ ~Apart(scoredSteps[m], scoredSteps[c])
           /\ \E c \in out : /\ Cardinality(ahead(c)) >= target
                             /\ \A m \in ahead(c) : Apart(scoredSteps[m], scoredSteps[c])

\* the position in decisionPoints of the scored step at position k (0: not returned)
PointOf(k) ==
    LET hits == {i \in 1..Len(decisionPoints) :
                    /\ decisionPoints[i].legIndex = scoredSteps[k].legIndex
                    /\ decisionPoints[i].stepIndex = scoredSteps[k].stepIndex}
    IN  IF hits = {} THEN 0 ELSE CHOOSE i \in hits : TRUE

\* the positions among the scored steps of the lead-ins the main points call
\* for: the step right before a main point in the flattened list, when it is
\* longer than 40 m or reads as a prepare instruction and is no main point itself
LeadInSteps ==
    LET mains == MainSteps
    IN  {k \in 1..(Len(scoredSteps) - 1) :
            /\ k + 1 \in mains
            /\ k \notin mains
            /\ scoredSteps[k].distanceMeters > 40 \/ isPrepareStep(scoredSteps[k].instruction)}

\* C28: for every accepted main step its immediate predecessor in the
\* flattened list (across leg boundaries) is added, before trimming, exactly
\* when it is longer than 40 m or its instruction matches a prepare pattern;
\* it is added with isLeadIn = true and the reason lead-in appended, unless it
\* is an accepted main step itself, which stays a point that is no lead-in.
\* (Trimming applies when main points and lead-ins are more than 12.)
C28_LeadIns ==
    (Analyzed /\ ~fault /\ directionsResult.routes # <<>>) =>
        LET mains == MainSteps
            leadIns == LeadInSteps
            returned == {k \in 1..Len(scoredSteps) : PointOf(k) > 0}
        IN  /\ returned \subseteq mains \cup leadIns
            /\ Cardinality(mains \cup leadIns) <= MAX_TARGET_POINTS => returned = mains \cup leadIns
            /\ \A k \in returned \cap leadIns :
                  /\ decisionPoints[PointOf(k)].isLeadIn
                  /\ decisionPoints[PointOf(k)].reasons = Append(scoredSteps[k].reasons, "lead-in")
            /\ \A k \in mains :
                  /\ ~decisionPoints[PointOf(k)].isLeadIn
                  /\ decisionPoints[PointOf(k)].reasons = scoredSteps[k].reasons

\* C28 witness: three steps over two legs: the last step of the first leg is
\* the lead-in of the main point that opens the second leg, and that main
\* point, 80 m long with an exit cue, precedes another main point and stays
\* a main point
C28_Witness ==
    /\ Analyzed /\ ~fault
    /\ Len(scoredSteps) = 3 /\ Len(decisionPoints) = 3
    /\ scoredSteps[1].legIndex = 0 /\ scoredSteps[2].legIndex = 1
    /\ decisionPoints[1].isLeadIn /\ decisionPoints[1].reasons = <<"motorway-cruise", "lead-in">>
    /\ ~decisionPoints[2].isLeadIn /\ ~decisionPoints[3].isLeadIn
    /\ isPrepareStep(scoredSteps[2].instruction)

\* C29: when main points and lead-ins exceed 12, lead-ins are removed in
\* ascending score order, one at a time, only until 12 points are left: no
\* lead-in is removed while a lead-in of lower score is kept, and main points
\* are removed only when no lead-in is left (the greedy pass accepts at most 12
\* main points, so every one of them is returned).
C29_TrimOrder ==
    (Analyzed /\ ~fault /\ directionsResult.routes # <<>>) =>
        LET mains == MainSteps
            leadIns == LeadInSteps
            accepted == selectMain(sort(SelectSeq(scoredSteps, LAMBDA step : step.score > 0 /\ ~step.exclude),
                                        "priority"), 1, <<>>, getTargetCount(Route))
            removed == {k \in leadIns : PointOf(k) = 0}
            over == Cardinality(mains) + Cardinality(leadIns) - MAX_TARGET_POINTS
        IN  /\ Cardinality(mains) = Len(accepted)
            /\ Cardinality(removed) = IF over > 0 THEN over ELSE 0
            /\ \A r \in removed : \A k \in leadIns \ removed :
                  scoredSteps[r].score <= scoredSteps[k].score

\* C29 witness: seven main points with seven lead-ins, four scoring 0 and
\* three scoring 3: two of those scoring 0 are removed and twelve points returned
C29_Witness ==
    /\ Analyzed /\ ~fault /\ directionsResult.routes # <<>>
    /\ Len(decisionPoints) = 12
    /\ LET leadIns == LeadInSteps
           removed == {k \in leadIns : PointOf(k) = 0}
       IN  /\ Cardinality(MainSteps) = 7 /\ Cardinality(leadIns) = 7
           /\ Cardinality(removed) = 2
           /\ \A r \in removed : scoredSteps[r].score = 0
           /\ \E k \in leadIns \ removed : scoredSteps[k].score = 0
           /\ \E k \in leadIns \ removed : scoredSteps[k].score = 3
           /\ \E r \in removed : \E k \in leadIns \ removed : scoredSteps[k].score = 3 /\ k < r

\* C30: between operations, on a non-empty list, the sequencer is playing
\* exactly when an auto-advance timer is pending, and playing implies that the
\* current index is below the last index and that speed is not 0; no timer is
\* pending without a list, so a timer's callback only ever runs on a playing
\* sequencer, never on one that was paused, re-initialised or destroyed.
C30_PlayingIffTimerPending ==
    /\ Len(points) > 0 =>
        /\ isPlaying <=> timers # {}
        /\ isPlaying => currentIndex < Len(points) - 1 /\ speed # 0
    /\ Len(points) = 0 => timers = {}
    /\ lastOp.op = "timer" => lastOp.playing /\ lastOp.n > 0 /\ lastOp.hadTimer

\* C30 witness: a timer's callback ran on a playing sequencer, advanced to a
\* point below the last one and armed the next timer
C30_Witness ==
    /\ lastOp.op = "timer" /\ lastOp.playing
    /\ isPlaying /\ ArmedNow
    /\ currentIndex = lastOp.idx + 1 /\ currentIndex < Len(points) - 1

\* ------------------------------------------------ claims on speed and skip
\* C31: with speed 0 the sequencer never rests in Playing: play() at speed 0,
\* and setSpeed(0) while Playing, run through every remaining point inside the
\* call: on return the current index is the last index, isPlaying is false, no
\* timer is pending, and every point after the starting one has its dwell
\* recorded as zero.
C31_SkipRunsToTheEnd ==
    /\ ((Called("play") /\ speed = 0) \/ (Called("setSpeed") /\ lastOp.arg = 0 /\ lastOp.playing)) =>
          /\ currentIndex = Len(points) - 1
          /\ ~isPlaying /\ timers = {} /\ playTimer = 0
          /\ \A i \in (lastOp.idx + 1)..(Len(points) - 1) : Dwell(i) = 0
    /\ (isPlaying /\ Len(points) > 0) => speed # 0

\* C31 witness: play() at speed 0 on the first of three points, long after it was shown
C31_Witness ==
    /\ Called("play") /\ speed = 0
    /\ lastOp.idx = 0 /\ Len(points) = 3 /\ currentIndex = 2
    /\ Dwell(0) > 0 /\ Dwell(1) = 0 /\ Dwell(2) = 0

\* C32: setSpeed(s) with s one of 0.5, 1, 2 changes only the speed and emits
\* one snapshot (to the callback, once one is registered), which shows the new
\* speed; current index, playing flag, dwell data and the timer already
\* pending, with its delay and due time, are left as they were.  The new speed
\* takes effect when the next timer is armed.
C32_SetSpeedChangesSpeedOnly ==
    /\ (lastOp.op = "setSpeed" /\ lastOp.arg \in {50, 100, 200}) =>
          /\ speed = lastOp.arg
          /\ lastOp.frame /\ lastOp.dwellSame /\ ~fault
          /\ currentIndex = lastOp.idx /\ isPlaying = lastOp.playing
          /\ Len(emitted) = IF onUpdate THEN 1 ELSE 0
          /\ \A j \in 1..Len(emitted) : emitted[j].speed = lastOp.arg
    /\ (lastOp.op = "timer" /\ timers # {}) =>
          \A t \in timers : t.delay = RestTable(speed, points[currentIndex + 1].isDecisionPoint)

\* C32 witness: setSpeed(2) while playing at 1x on a Decision Point: the 8000 ms
\* timer stays pending, a timer armed now would run 4000 ms
C32_Witness ==
    /\ Called("setSpeed") /\ lastOp.arg = 200 /\ speed = 200
    /\ lastOp.playing /\ lastOp.hadTimer /\ isPlaying
    /\ points[currentIndex + 1].isDecisionPoint
    /\ timers # {}
    /\ \A t \in timers : t.delay = 8000 /\ t.id = playTimer
    /\ Len(emitted) = 1

\* ------------------------------------------- claims on the returned list
\* the steps the greedy pass accepts, as positions among the scored steps
AcceptedSteps ==
    LET accepted == selectMain(sort(SelectSeq(scoredSteps, LAMBDA step : step.score > 0 /\ ~step.exclude),
                                    "priority"), 1, <<>>, getTargetCount(Route))
    IN  {accepted[j].orderIndex + 1 : j \in 1..Len(accepted)}

\* C33: trimming only ever removes lead-ins: the greedy pass accepts at most
\* 12 steps and each of them is in the list returned as a point that is no
\* lead-in; whenever a candidate exists, the candidate of the highest score
\* (the earliest one among ties) is in the list.
C33_AcceptedStepsSurvive ==
    (Analyzed /\ ~fault /\ directionsResult.routes # <<>>) =>
        LET accepted == AcceptedSteps
        IN  /\ Cardinality(accepted) <= MAX_TARGET_POINTS
            /\ \A k \in accepted : PointOf(k) > 0 /\ ~decisionPoints[PointOf(k)].isLeadIn
            /\ Candidates # {} =>
                  LET best == CHOOSE c \in Candidates : \A d \in Candidates \ {c} : Before(c, d)
                  IN  PointOf(best) > 0 /\ ~decisionPoints[PointOf(best)].isLeadIn

\* C33 witness: seven accepted steps and seven lead-ins were trimmed to twelve
\* points, all seven accepted steps among them
C33_Witness ==
    /\ Analyzed /\ ~fault /\ directionsResult.routes # <<>>
    /\ Len(decisionPoints) = 12
    /\ Cardinality(AcceptedSteps) = 7 /\ Cardinality(LeadInSteps) = 7
    /\ \A k \in AcceptedSteps : PointOf(k) > 0
    /\ \E k \in LeadInSteps : PointOf(k) = 0

\* the position among the scored steps (orderIndex + 1) of the point at
\* position i of the list returned
StepOf(i) ==
    CHOOSE k \in 1..Len(scoredSteps) :
        /\ scoredSteps[k].legIndex = decisionPoints[i].legIndex
        /\ scoredSteps[k].stepIndex = decisionPoints[i].stepIndex

\* C34: in every list analyze() returns, each lead-in is directly followed by
\* a point that is no lead-in and whose position in the route (orderIndex) is
\* exactly one greater: a lead-in is never the last element and never
\* survives without the junction it precedes.
C34_LeadInBeforeItsJunction ==
    (Analyzed /\ ~fault) =>
        \A i \in 1..Len(decisionPoints) :
            decisionPoints[i].isLeadIn =>
                /\ i < Len(decisionPoints)
                /\ ~decisionPoints[i + 1].isLeadIn
                /\ StepOf(i + 1) = StepOf(i) + 1

\* C34 witness: a list trimmed to twelve points, five of the seven lead-ins
\* kept, each right before its junction
C34_Witness ==
    /\ Analyzed /\ ~fault
    /\ Len(decisionPoints) = 12
    /\ Cardinality({i \in 1..12 : decisionPoints[i].isLeadIn}) = 5
    /\ Cardinality(LeadInSteps) = 7
    /\ \A i \in 1..11 : decisionPoints[i].isLeadIn => StepOf(i + 1) = StepOf(i) + 1

\* ------------------------------------------------------------------ C35
PlaybackRunning == isPlaying /\ speed \in {50, 100, 200}

PlaybackEnded ==
    currentIndex = Len(points) - 1 /\ ~isPlaying /\ timers = {} /\ playTimer = 0

\* C35: a sequencer that is playing at 0.5x, 1x or 2x and is left alone (no
\* operation called, every armed timeout firing) eventually stands on the last
\* point, paused, with no timeout pending; on the way the current index only
\* ever moves to the following one, so every intermediate point is current
\* exactly once, in ascending order, on a list of the same length at the same speed.
C35_PlaybackReachesTheEnd ==
    /\ PlaybackRunning ~> PlaybackEnded
    /\ [][PlaybackRunning => /\ currentIndex' \in {currentIndex, currentIndex + 1}
                             /\ Len(points') = Len(points)
                             /\ speed' = speed]_vars

\* a three-point list played from its first point to the end by timeouts alone
C35_Witness ==
    /\ lastOp.op = "timer" /\ lastOp.playing /\ lastOp.idx = 1
    /\ Len(points) = 3 /\ speed \in {50, 100, 200}
    /\ PlaybackEnded
    /\ Dwell(0) > 0 /\ Dwell(1) > 0

\* ------------------------------------------------------------------ C36
\* the last step called the sequencer (init stands for startRehearsal, destroy
\* for goBackToInput)
Operated == lastOp.op \notin {"none", "tick", "analyze"}

\* the snapshots of the last operation that show the last point with playback stopped
Stopped == {j \in 1..Len(emitted) : emitted[j].isLast /\ ~emitted[j].isPlaying}

\* C36: within one rehearsal the application computes the most-lingered summary
\* at most once: an operation computes it once, at its first snapshot with
\* isLast true and isPlaying false, when the rehearsal was not completed before,
\* and never when it was; the flag set with it stays set until the next
\* startRehearsal or goBackToInput.  Manual navigation computes it on arriving at
\* the last point, from the list as it is then (the dwell of this visit to the
\* last point is not written yet); a next() past the end computes nothing and
\* so leaves the summary alone, as does every other operation on a completed
\* rehearsal, whatever dwell it writes.
C36_SummaryComputedOnce ==
    Operated =>
        /\ Len(lastOp.summaries) <= 1
        /\ lastOp.wasCompleted =>
              /\ lastOp.summaries = <<>>
              /\ rehearsalCompleted \/ lastOp.op = "destroy"
        /\ ~lastOp.wasCompleted =>
              /\ Len(lastOp.summaries) = 1 <=> Stopped # {}
              /\ lastOp.op # "destroy" => (rehearsalCompleted <=> Stopped # {})
        /\ lastOp.summaries # <<>> => lastOp.summaries[1] = getMostLingered(decisionPoints)
        /\ (Called("next") /\ ~lastOp.playing /\ lastOp.idx = lastOp.n - 2 /\ ~lastOp.wasCompleted) =>
              /\ Len(lastOp.summaries) = 1
              /\ lastOp.n - 1 \notin lastOp.written
        /\ (Called("next") /\ lastOp.idx = lastOp.n - 1) =>
              /\ lastOp.wasCompleted
              /\ lastOp.summaries = <<>>

\* next() past the end of a three-point list whose rehearsal is completed: the
\* dwell of the last point is written only now, and nothing is recomputed
C36_Witness ==
    /\ Called("next") /\ ~lastOp.playing /\ lastOp.idx = 2 /\ Len(points) = 3
    /\ lastOp.wasCompleted /\ rehearsalCompleted
    /\ lastOp.written = {2} /\ Dwell(2) > 0
    /\ lastOp.summaries = <<>>

====
